---- MODULE Spec2Model ----
(***************************************************************************)
(* Transaction-set state engine of muchain-fabric: the tx-set state store  *)
(* (two-tier delta over a raw key-value backing), the invariant-enforcing  *)
(* writer Ledger.SetTxSetState, the executor (Execute, ExecuteTransactions)*)
(* and the mutation replay engine (ApplyMutations).                        *)
(*                                                                         *)
(* Go pointers: TxSetState.Get(k, false) returns the *TxSetStateValue held *)
(* by the in-memory delta, so a caller that writes through that pointer    *)
(* changes the delta itself; Get(k, true) unmarshals a fresh value from    *)
(* the store.  The model keeps this difference (WriteThrough).             *)
(*                                                                         *)
(* A Go panic ends the process: pc = "panic" is a terminal state.          *)
(***************************************************************************)
EXTENDS Integers, Sequences, FiniteSets, TLC

\* ---------------------------------------------------------------- bounds
\* Largest number of blocks the chain grows to.
MaxBlocks == 3
\* Largest number of transactions in one batch (one block).
MaxBatch == 2
\* Largest number of candidates carried by one transaction-set transaction.
MaxCand == 2
\* Largest index a mutant transaction asks for.
MaxIdx == 2

\* The chain committed under store failures: its blocks.
CommitBlocks == 2

\* The longer chain: its blocks and the transactions of one of its batches.
LongChainBlocks == 4
LongChainBatch == 1

\* historyStateDeltaSize, the number of blocks whose tx-set delta is kept.
HistoryStateDeltaSize == 2

\* TxSetIDs in use.
Keys == {"A"}
\* Txid of the mutant transaction asking index x for set k (its own id, never
\* a TxSetID).
MutantTxid(k, x) == "mut-" \o k \o ToString(x)

\* uint64 arithmetic wraps; the model keeps the wrap with a modulus that fits
\* the checker's integers and exceeds every length and index of the model.
UintMod == 2^30
USub(a, b) == (a - b) % UintMod

\* ------------------------------------------------- TxSetStateValue (proto)
\* The zero value of the message (a freshly allocated &pb.TxSetStateValue{}).
ZeroValue ==
    [nonce |-> 0, introBlock |-> 0, lastModifiedAtBlock |-> 0, index |-> 0,
     txNumber |-> 0, indexAtBlock |-> <<>>]

TxSetIndex(blockNr, inBlockIndex) == [blockNr |-> blockNr, inBlockIndex |-> inBlockIndex]

\* An optional value (a Go pointer that may be nil): <<>> is nil, <<v>> is &v.
Nil == <<>>
Some(v) == <<v>>
IsNil(o) == o = <<>>
Val(o) == o[1]

Last(q) == q[Len(q)]

\* A plausible slip: the entries of the previous value are not compared, only
\* the last entry of the new value is checked.
IsValidBlockExtensionLastEntryOnly(prev, other) ==
    IF prev.txNumber > other.txNumber THEN "less transactions"
    ELSE IF Len(other.indexAtBlock) = 0 THEN "panic"
    ELSE IF Last(other.indexAtBlock).inBlockIndex # USub(other.txNumber, 1)
        THEN "index of the new set is not correct"
    ELSE IF Last(other.indexAtBlock).blockNr # other.lastModifiedAtBlock
        THEN "block of the new set is not correct"
    ELSE IF prev.introBlock # 0 /\ other.index # prev.index
        THEN "not possible to modify the index in a set extension"
    ELSE ""

\* A plausible slip: the block of the last entry is not compared with
\* lastModifiedAtBlock.
IsValidBlockExtensionAtAnyBlock(prev, other) ==
    IF prev.txNumber > other.txNumber THEN "less transactions"
    ELSE IF Len(other.indexAtBlock) = 0 THEN "panic"
    ELSE IF Last(other.indexAtBlock).inBlockIndex # USub(other.txNumber, 1)
        THEN "index of the new set is not correct"
    ELSE IF Len(prev.indexAtBlock) > Len(other.indexAtBlock)
            /\ \A i \in 1..Len(other.indexAtBlock) :
                   prev.indexAtBlock[i] = other.indexAtBlock[i]
        THEN "panic"
    ELSE IF \E i \in 1..Len(prev.indexAtBlock) :
               i <= Len(other.indexAtBlock) /\ prev.indexAtBlock[i] # other.indexAtBlock[i]
        THEN "conflicting index information"
    ELSE IF prev.introBlock # 0 /\ other.index # prev.index
        THEN "not possible to modify the index in a set extension"
    ELSE ""

\* IsValidBlockExtension: "" when other is a valid extension of prev, an error
\* text otherwise, "panic" where the Go code indexes out of range.
IsValidBlockExtension(prev, other) ==
    IF prev.txNumber > other.txNumber THEN "less transactions"
    ELSE IF Len(other.indexAtBlock) = 0 THEN "panic"
    ELSE IF Last(other.indexAtBlock).inBlockIndex # USub(other.txNumber, 1)
        THEN "index of the new set is not correct"
    ELSE IF Last(other.indexAtBlock).blockNr # other.lastModifiedAtBlock
        THEN "block of the new set is not correct"
    ELSE IF Len(prev.indexAtBlock) > Len(other.indexAtBlock)
            /\ \A i \in 1..Len(other.indexAtBlock) :
                   prev.indexAtBlock[i] = other.indexAtBlock[i]
        THEN "panic"
    ELSE IF \E i \in 1..Len(prev.indexAtBlock) :
               i <= Len(other.indexAtBlock) /\ prev.indexAtBlock[i] # other.indexAtBlock[i]
        THEN "conflicting index information"
    ELSE IF prev.introBlock # 0 /\ other.index # prev.index
        THEN "not possible to modify the index in a set extension"
    ELSE ""

\* A plausible slip: the new index is not checked against txNumber.
IsValidMutationUnbounded(prev, other) ==
    IF prev.lastModifiedAtBlock >= other.lastModifiedAtBlock
        THEN "modify before the last time it was modified"
    ELSE IF prev.txNumber # other.txNumber THEN "mutant cannot extend a set"
    ELSE IF prev.index = other.index THEN "active index did not change"
    ELSE IF prev.indexAtBlock # other.indexAtBlock THEN "mutant cannot extend a set"
    ELSE ""

\* IsValidMutation: "" when other is a valid mutation of prev.
IsValidMutation(prev, other) ==
    IF prev.lastModifiedAtBlock >= other.lastModifiedAtBlock
        THEN "modify before the last time it was modified"
    ELSE IF prev.txNumber # other.txNumber THEN "mutant cannot extend a set"
    ELSE IF prev.index = other.index THEN "active index did not change"
    ELSE IF other.index >= other.txNumber THEN "out of bound new index"
    ELSE IF prev.indexAtBlock # other.indexAtBlock THEN "mutant cannot extend a set"
    ELSE ""

\* A plausible slip: the search looks for the first entry with
\* inx < inBlockIndex.
RECURSIVE SearchStrictlyBelow(_, _, _, _)
SearchStrictlyBelow(q, inx, lo, hi) ==
    IF lo >= hi THEN lo
    ELSE LET h == (lo + hi) \div 2
         IN IF ~(inx < q[h + 1].inBlockIndex)
               THEN SearchStrictlyBelow(q, inx, h + 1, hi)
               ELSE SearchStrictlyBelow(q, inx, lo, h)

\* PositionForIndex: sort.Search over indexAtBlock for the first entry with
\* inx <= inBlockIndex.  sort.Search is a binary search: lo and hi as in Go.
RECURSIVE Search(_, _, _, _)
Search(q, inx, lo, hi) ==
    IF lo >= hi THEN lo
    ELSE LET h == (lo + hi) \div 2
         IN IF ~(inx <= q[h + 1].inBlockIndex)
               THEN Search(q, inx, h + 1, hi)
               ELSE Search(q, inx, lo, h)

\* The 0-based position, and whether it was found.
PositionForIndex(v, inx) ==
    LET i == Search(v.indexAtBlock, inx, 0, Len(v.indexAtBlock))
    IN [pos |-> i, ok |-> i < Len(v.indexAtBlock)]

\* BlockForIndex: the indexAtBlock entry PositionForIndex finds.
BlockForIndex(v, inx) ==
    LET p == PositionForIndex(v, inx)
    IN IF p.ok THEN [entry |-> v.indexAtBlock[p.pos + 1], ok |-> TRUE]
       ELSE [entry |-> TxSetIndex(0, 0), ok |-> FALSE]

\* ------------------------------------------------ TxSetStateDelta (L1)
\* A delta is a function from the updated TxSetIDs to UpdatedValue records.
EmptyDelta == <<>>
IsUpdatedValueSet(delta, k) == k \in DOMAIN delta

\* TxSetStateDelta.Set: records the update and flags it as a mutant.
DeltaSet(delta, k, new, prev) ==
    (k :> [value |-> new, previous |-> prev,
           isMutant |-> (~IsNil(prev) /\ new.txNumber = Val(prev).txNumber
                          /\ new.index # Val(prev).index)])
    @@ delta

\* TxSetStateDelta.ApplyChanges: the keys other sets win.
ApplyChanges(delta, other) ==
    [k \in DOMAIN delta \cup DOMAIN other |->
        IF k \in DOMAIN other THEN other[k] ELSE delta[k]]

\* ------------------------------------------------------------ transactions
\* An InBlockTransaction.  kind "set": a transaction set with n candidates,
\* default index defaultInx and the extend flag (txid is the TxSetID).
\* kind "mutant": asks to make index the active index of set setID.
\* kind "query": a set-state query for setID.
SetTx(k, n, d, e) ==
    [kind |-> "set", txid |-> k, setID |-> k, n |-> n, defaultInx |-> d,
     extend |-> e, index |-> 0]
MutantTx(k, x) ==
    [kind |-> "mutant", txid |-> MutantTxid(k, x), setID |-> k, n |-> 0, defaultInx |-> 0,
     extend |-> FALSE, index |-> x]

\* A candidate payload: candidate local of the set transaction txid of block blockNr.
Cand(txid, blockNr, local) == [txid |-> txid, blockNr |-> blockNr, local |-> local]

\* ------------------------------------------------------ TxSetState (L2)
\* The ledger state handed to the operators below is a record s with fields
\*   db                 the txSetState column family: TxSetID -> value
\*   txSetStateDeltaCF  the txSetStateDelta column family: block -> delta
\*   committed          txSetStateDelta, the block's accumulated delta
\*   current            currentTxSetStateDelta, the open transaction's delta
\*   currentTxID        "" when no tx-set transaction is in progress
\*   txStateDeltaHash   txid -> whether a delta hash (non-nil) was stored
\*   blocks, isResetting, sizeReset      the blockchain
\*   ccState, ccDelta, blockState        the chaincode state store
\*   vmFails            whether the chaincode VM fails the call it gets next
\*   historyStateDeltaSize  the configured number of blocks whose delta is kept
\*   snapshotCall       the GetStateSnapshot call of the reader: where it stands,
\*                      the db snapshot it holds, and once it returned its
\*                      error, the snapshots handed out and those left unreleased

txInProgress(s) == s.currentTxID # ""

\* raw backing Get: unmarshals the stored value (a fresh object) or nil.
ImplGet(s, k) == IF k \in DOMAIN s.db THEN Some(s.db[k]) ELSE Nil

\* A plausible slip: the in-memory deltas are not looked at.
GetFromStoreOnly(s, k, committedOnly) == ImplGet(s, k)

\* TxSetState.Get
Get(s, k, committedOnly) ==
    IF ~committedOnly /\ k \in DOMAIN s.current THEN Some(s.current[k].value)
    ELSE IF ~committedOnly /\ k \in DOMAIN s.committed THEN Some(s.committed[k].value)
    ELSE ImplGet(s, k)

\* A write through the pointer Get(k, false) returned: the object lives in the
\* staged delta, else in the committed delta, else it is a private copy.
WriteThrough(s, k, v) ==
    IF k \in DOMAIN s.current THEN [s EXCEPT !.current[k].value = v]
    ELSE IF k \in DOMAIN s.committed THEN [s EXCEPT !.committed[k].value = v]
    ELSE s

\* The outcome of an operation: the state it leaves, its error ("" for nil),
\* whether it panicked, and the candidates it handed to the chaincode VM.
Outcome(s, err) == [s |-> s, err |-> err, panic |-> FALSE, out |-> <<>>]
Panic(s) == [s |-> s, err |-> "panic", panic |-> TRUE, out |-> <<>>]

\* A plausible slip: no check for a transaction in progress.
TxBeginUnguarded(s, txID) == Outcome([s EXCEPT !.currentTxID = txID], "")

\* TxSetState.TxBegin
TxBegin(s, txID) ==
    IF txInProgress(s) THEN Panic(s)
    ELSE Outcome([s EXCEPT !.currentTxID = txID], "")

\* A plausible slip: the staged updates are merged whatever txSuccessful says.
TxFinishAlwaysMerging(s, txID, txSuccessful) ==
    IF s.currentTxID # txID THEN Panic(s)
    ELSE Outcome([s EXCEPT !.committed = ApplyChanges(s.committed, s.current),
                           !.txStateDeltaHash = (txID :> (s.current # EmptyDelta)) @@ @,
                           !.current = EmptyDelta, !.currentTxID = ""], "")

\* TxSetState.TxFinish
TxFinish(s, txID, txSuccessful) ==
    IF s.currentTxID # txID THEN Panic(s)
    ELSE LET merged ==
                 IF txSuccessful
                 THEN IF s.current # EmptyDelta
                      THEN [s EXCEPT !.committed = ApplyChanges(s.committed, s.current),
                                     !.txStateDeltaHash = (txID :> TRUE) @@ @]
                      ELSE [s EXCEPT !.txStateDeltaHash = (txID :> FALSE) @@ @]
                 ELSE s
         IN Outcome([merged EXCEPT !.current = EmptyDelta, !.currentTxID = ""], "")

\* A plausible slip: no guard against a second write in the block.
StateSetUnguarded(s, k, v) ==
    IF ~txInProgress(s) THEN Panic(s)
    ELSE Outcome([s EXCEPT !.current = DeltaSet(s.current, k, v, Get(s, k, TRUE))], "")

\* A plausible slip: the guard looks at the open transaction's delta only.
StateSetCurrentOnly(s, k, v) ==
    IF ~txInProgress(s) THEN Panic(s)
    ELSE IF IsUpdatedValueSet(s.current, k) THEN Outcome(s, "")
    ELSE Outcome([s EXCEPT !.current = DeltaSet(s.current, k, v, Get(s, k, TRUE))], "")

\* TxSetState.Set
StateSet(s, k, v) ==
    IF ~txInProgress(s) THEN Panic(s)
    ELSE IF IsUpdatedValueSet(s.current, k) \/ IsUpdatedValueSet(s.committed, k)
        THEN Outcome(s, "")
    ELSE Outcome([s EXCEPT !.current = DeltaSet(s.current, k, v, Get(s, k, TRUE))], "")

\* A plausible slip: the isMutant flag of the updates is not looked at.
GetOlderBlockModOfAnyUpdate(s) ==
    LET ups == DOMAIN s.committed
    IN IF ups = {} THEN [older |-> 0, isSet |-> FALSE]
       ELSE [older |-> CHOOSE b \in {s.committed[k].value.introBlock : k \in ups} :
                          \A k \in ups : b <= s.committed[k].value.introBlock,
             isSet |-> TRUE]

\* TxSetState.GetOlderBlockMod: [older, isSet].
GetOlderBlockMod(s) ==
    LET muts == {k \in DOMAIN s.committed : s.committed[k].isMutant}
    IN IF muts = {} THEN [older |-> 0, isSet |-> FALSE]
       ELSE [older |-> CHOOSE b \in {s.committed[k].value.introBlock : k \in muts} :
                          \A k \in muts : b <= s.committed[k].value.introBlock,
             isSet |-> TRUE]

\* TxSetState.ClearInMemoryChanges
ClearInMemoryChanges(s) ==
    [s EXCEPT !.committed = EmptyDelta, !.txStateDeltaHash = <<>>]

\* ------------------------------------------------------------ Ledger (L5)
\* Ledger.SetTxSetState, the invariant-enforcing writer.
SetTxSetState(s, k, v) ==
    LET previous == Get(s, k, TRUE)
        prev == IF IsNil(previous) THEN ZeroValue ELSE Val(previous)
        check == IF prev.introBlock # 0 /\ prev.index # v.index
                 THEN IsValidMutation(prev, v)
                 ELSE IsValidBlockExtension(prev, v)
    IN IF v.nonce # prev.nonce + 1 THEN Outcome(s, "Wrong nonce update")
       ELSE IF prev.introBlock # 0 /\ prev.introBlock # v.introBlock
           THEN Outcome(s, "cannot modify the intro block")
       ELSE IF check = "panic" THEN Panic(s)
       ELSE IF check # "" THEN Outcome(s, check)
       ELSE StateSet(s, k, v)

GetBlockchainSize(s) == Len(s.blocks)

\* Ledger.GetCurrentBlockEx
GetCurrentBlockEx(s) == IF s.isResetting THEN s.sizeReset ELSE GetBlockchainSize(s)

\* indexer.fetchTransactionIndexMap: block number -> position of the transaction
\* txid in that block (one position per block: the last one indexed).
TxIdxMap(s, txid) ==
    LET bs == {b \in 1..Len(s.blocks) :
                  \E i \in 1..Len(s.blocks[b]) : s.blocks[b][i].txid = txid}
    IN [b \in {c - 1 : c \in bs} |->
           CHOOSE i \in 1..Len(s.blocks[b + 1]) :
               /\ s.blocks[b + 1][i].txid = txid
               /\ \A j \in 1..Len(s.blocks[b + 1]) :
                      s.blocks[b + 1][j].txid = txid => j <= i]

\* Ledger.GetCurrentDefault for the transaction t met in block atBlock:
\* the candidate selected (out), an error, or a panic (index out of range).
GetCurrentDefault(s, t, atBlock, committedOnly) ==
    LET o == Get(s, t.txid, committedOnly)
        v == Val(o)
        info == BlockForIndex(v, v.index)
        defBlock == info.entry.blockNr
        inxAtBlock == USub(v.index, info.entry.inBlockIndex)
        txIdxMap == TxIdxMap(s, t.txid)
        txSet == s.blocks[defBlock + 1][txIdxMap[defBlock]]
    IN IF t.kind = "set" /\ t.defaultInx >= t.n THEN Panic(s)
       ELSE IF IsNil(o)
           THEN IF t.kind # "set" \/ t.n = 0
                THEN Outcome(s, "not a transactions set")
                ELSE [Outcome(s, "") EXCEPT !.out = <<Cand(t.txid, atBlock, 0)>>]
       ELSE IF ~info.ok THEN Outcome(s, "unable to find queried default transaction index info")
       ELSE IF defBlock < GetBlockchainSize(s)
           THEN IF defBlock \notin DOMAIN txIdxMap
                THEN Outcome(s, "Unable to find given set at its current default block")
                ELSE IF txSet.kind # "set"
                THEN Outcome(s, "current default block does not contain a tx set")
                ELSE IF inxAtBlock >= txSet.n THEN Panic(s)
                ELSE [Outcome(s, "") EXCEPT !.out = <<Cand(t.txid, defBlock, inxAtBlock)>>]
       ELSE IF t.kind # "set" THEN Outcome(s, "Unable to unmarshal default transaction")
       ELSE [Outcome(s, "") EXCEPT !.out = <<Cand(t.txid, atBlock, t.defaultInx)>>]

\* ------------------------------------------------------ Executor (L6)
\* The chaincode VM call of Execute (Deploy/Launch/Execute between markTxBegin
\* and markTxFinish(true)): the candidate's effect joins the batch's chaincode
\* changes.
Dispatch(s, cands) ==
    IF s.vmFails THEN Outcome(s, "Failed to launch chaincode spec")
    ELSE [Outcome([s EXCEPT !.ccDelta = @ \o cands], "") EXCEPT !.out = cands]

\* A plausible slip: the first candidate is executed, whatever the default.
ExecuteDefaultFirst(s, t, nextBlockNr) ==
    Dispatch(s, <<Cand(t.txid, nextBlockNr, 0)>>)

\* Execute, from GetCurrentDefault on: the active candidate goes to the VM.
ExecuteDefault(s, t, nextBlockNr) ==
    LET g == GetCurrentDefault(s, t, nextBlockNr, FALSE)
    IN IF g.panic \/ g.err # "" THEN g ELSE Dispatch(s, g.out)

\* A plausible slip: the returns that keep an extension, and a set met after
\* its introducing block, from the VM are missing.
ExecuteTransactionSetAlwaysDispatching(s, t) ==
    LET nextBlockNr == GetCurrentBlockEx(s)
        o == Get(s, t.txid, FALSE)
        txSetExistedAlready == ~IsNil(o)
        base == IF txSetExistedAlready THEN Val(o)
                ELSE [ZeroValue EXCEPT !.introBlock = nextBlockNr,
                                       !.index = t.defaultInx]
        txNumber == base.txNumber + t.n
        newV == [base EXCEPT
                    !.nonce = @ + 1,
                    !.txNumber = txNumber,
                    !.indexAtBlock = Append(@, TxSetIndex(nextBlockNr, USub(txNumber, 1))),
                    !.lastModifiedAtBlock = nextBlockNr]
        begun == TxBegin(s, t.txid)
        written == SetTxSetState(WriteThrough(begun.s, t.txid, newV), t.txid, newV)
        finished == TxFinish(written.s, t.txid, written.err = "")
    IN IF t.n = 0 THEN Outcome(s, "At least a transaction to execute should be provided")
       ELSE IF ~s.isResetting /\ (txSetExistedAlready \/ t.n > 1)
           THEN IF ~txSetExistedAlready /\ t.extend
                THEN Outcome(s, "Cannot extend a non existent transactions set")
                ELSE IF begun.panic THEN begun
                ELSE IF written.panic THEN written
                ELSE IF written.err # ""
                    THEN Outcome(finished.s, "Unable to create the state for the new set")
                ELSE ExecuteDefault(finished.s, t, nextBlockNr)
       ELSE ExecuteDefault(s, t, nextBlockNr)

\* A plausible slip: introBlock is set on every write of the set, not only
\* when the set had no value.
ExecuteTransactionSetReintroducing(s, t) ==
    LET nextBlockNr == GetCurrentBlockEx(s)
        o == Get(s, t.txid, FALSE)
        txSetExistedAlready == ~IsNil(o)
        base == IF txSetExistedAlready THEN [Val(o) EXCEPT !.introBlock = nextBlockNr]
                ELSE [ZeroValue EXCEPT !.introBlock = nextBlockNr,
                                       !.index = t.defaultInx]
        txNumber == base.txNumber + t.n
        newV == [base EXCEPT
                    !.nonce = @ + 1,
                    !.txNumber = txNumber,
                    !.indexAtBlock = Append(@, TxSetIndex(nextBlockNr, USub(txNumber, 1))),
                    !.lastModifiedAtBlock = nextBlockNr]
        begun == TxBegin(s, t.txid)
        written == SetTxSetState(WriteThrough(begun.s, t.txid, newV), t.txid, newV)
        finished == TxFinish(written.s, t.txid, written.err = "")
    IN IF t.n = 0 THEN Outcome(s, "At least a transaction to execute should be provided")
       ELSE IF ~s.isResetting /\ (txSetExistedAlready \/ t.n > 1)
           THEN IF ~txSetExistedAlready /\ t.extend
                THEN Outcome(s, "Cannot extend a non existent transactions set")
                ELSE IF begun.panic THEN begun
                ELSE IF written.panic THEN written
                ELSE IF written.err # ""
                    THEN Outcome(finished.s, "Unable to create the state for the new set")
                ELSE IF newV.introBlock # nextBlockNr THEN Outcome(finished.s, "")
                ELSE IF t.extend THEN Outcome(finished.s, "")
                ELSE ExecuteDefault(finished.s, t, nextBlockNr)
       ELSE IF t.extend THEN Outcome(s, "")
       ELSE ExecuteDefault(s, t, nextBlockNr)

\* Execute, case InBlockTransaction_TransactionSet.
ExecuteTransactionSet(s, t) ==
    LET nextBlockNr == GetCurrentBlockEx(s)
        o == Get(s, t.txid, FALSE)
        txSetExistedAlready == ~IsNil(o)
        base == IF txSetExistedAlready THEN Val(o)
                ELSE [ZeroValue EXCEPT !.introBlock = nextBlockNr,
                                       !.index = t.defaultInx]
        txNumber == base.txNumber + t.n
        newV == [base EXCEPT
                    !.nonce = @ + 1,
                    !.txNumber = txNumber,
                    !.indexAtBlock = Append(@, TxSetIndex(nextBlockNr, USub(txNumber, 1))),
                    !.lastModifiedAtBlock = nextBlockNr]
        begun == TxBegin(s, t.txid)
        written == SetTxSetState(WriteThrough(begun.s, t.txid, newV), t.txid, newV)
        finished == TxFinish(written.s, t.txid, written.err = "")
    IN IF t.n = 0 THEN Outcome(s, "At least a transaction to execute should be provided")
       ELSE IF ~s.isResetting /\ (txSetExistedAlready \/ t.n > 1)
           THEN IF ~txSetExistedAlready /\ t.extend
                THEN Outcome(s, "Cannot extend a non existent transactions set")
                ELSE IF begun.panic THEN begun
                ELSE IF written.panic THEN written
                ELSE IF written.err # ""
                    THEN Outcome(finished.s, "Unable to create the state for the new set")
                ELSE IF newV.introBlock # nextBlockNr THEN Outcome(finished.s, "")
                ELSE IF t.extend THEN Outcome(finished.s, "")
                ELSE ExecuteDefault(finished.s, t, nextBlockNr)
       ELSE IF t.extend THEN Outcome(s, "")
       ELSE ExecuteDefault(s, t, nextBlockNr)

\* A plausible slip: the mutation is dated one block too far.
MutatedValueNextBlock(v, index, nextBlockNr) ==
    [v EXCEPT !.nonce = @ + 1, !.index = index,
              !.lastModifiedAtBlock = nextBlockNr + 1]

\* A plausible slip: the index asked is taken as counting from 1.
MutatedValueIndexFromOne(v, index, nextBlockNr) ==
    [v EXCEPT !.nonce = @ + 1, !.index = index + 1, !.lastModifiedAtBlock = nextBlockNr]

\* Execute, mutant case: the value a mutant makes of the stored value v.
MutatedValue(v, index, nextBlockNr) ==
    [v EXCEPT !.nonce = @ + 1, !.index = index, !.lastModifiedAtBlock = nextBlockNr]

\* Execute, case InBlockTransaction_MutantTransaction.
ExecuteMutantTransaction(s, t) ==
    LET nextBlockNr == GetCurrentBlockEx(s)
        begun == TxBegin(s, t.txid)
        o == Get(begun.s, t.setID, TRUE)
        newV == MutatedValue(Val(o), t.index, nextBlockNr)
        written == SetTxSetState(begun.s, t.setID, newV)
        finished == TxFinish(written.s, t.txid, written.err = "")
    IN IF s.isResetting THEN Outcome(s, "")
       ELSE IF begun.panic THEN begun
       ELSE IF IsNil(o)
           THEN Outcome(TxFinish(begun.s, t.txid, FALSE).s,
                        "mutant transaction for a non-existing tx set id")
       ELSE IF Val(o).index = t.index
           THEN Outcome(TxFinish(begun.s, t.txid, FALSE).s, "Nothing to mutate")
       ELSE IF written.panic THEN written
       ELSE IF written.err # ""
           THEN Outcome(finished.s, "Unable to set the new state for the Tx Set")
       ELSE Outcome(finished.s, "")

\* Execute, case InBlockTransaction_SetStQueryTransaction.
ExecuteSetStQuery(s, t) ==
    IF IsNil(Get(s, t.setID, TRUE)) THEN Outcome(s, "The state queried does not exists")
    ELSE Outcome(s, "")

\* Execute
Execute(s, t) ==
    IF t.kind = "set" THEN ExecuteTransactionSet(s, t)
    ELSE IF t.kind = "mutant" THEN ExecuteMutantTransaction(s, t)
    ELSE ExecuteSetStQuery(s, t)

\* ------------------------------------------------ Mutation replay (L6)
\* blockchain.getTransactionByID: the transaction txid of the first block
\* that holds one, with the number of that block.
GetTransactionByID(s, txid) ==
    LET m == TxIdxMap(s, txid)
        b == CHOOSE c \in DOMAIN m : \A d \in DOMAIN m : c <= d
    IN [tx |-> s.blocks[b + 1][m[b]], blockNr |-> b]

\* prevDefault: the default transaction of the set before the mutation
\* (read from the store), nothing for a transaction that is not a set.
PrevDefault(s, txid) ==
    LET found == GetTransactionByID(s, txid)
    IN IF IsNil(Get(s, txid, TRUE)) THEN Outcome(s, "")
       ELSE IF DOMAIN TxIdxMap(s, txid) = {} THEN Outcome(s, "transaction not found")
       ELSE GetCurrentDefault(s, found.tx, found.blockNr, TRUE)

\* chaincodeState.AddChangesForPersistence and the write of the batch: the
\* batch's chaincode changes reach the store, which is the state at the end
\* of block blockNr.
PersistChaincode(s, blockNr) ==
    LET st == s.ccState \o s.ccDelta
    IN [s EXCEPT !.ccState = st,
                 !.ccDelta = <<>>,
                 !.blockState = [b \in DOMAIN @ \cup {blockNr} |->
                                    IF b = blockNr THEN st ELSE @[b]]]

\* Ledger.resetForNextTxGroup
ResetForNextTxGroup(s) ==
    [ClearInMemoryChanges(s) EXCEPT !.currentID = "", !.ccDelta = <<>>]

\* The ways Ledger.ResetToBlock can fail in the store: "fetch", the state at
\* the block cannot be retrieved; "commit", the chaincode state is erased and
\* the write of the fetched state fails.  "" is no failure.
ResetFailures == {"", "fetch", "commit"}

\* Ledger.ResetToBlock: the chaincode state becomes the state at the end of
\* block blockNum and the chain starts resetting from blockNum + 1.
ResetToBlock(s, blockNum, fails) ==
    IF fails = "fetch" \/ blockNum \notin DOMAIN s.blockState
    THEN Outcome(s, "Unable to reset the state to block")
    ELSE IF fails = "commit"
    THEN Outcome([s EXCEPT !.ccState = <<>>, !.ccDelta = <<>>],
                 "Unable to commit the state at block")
    ELSE Outcome([s EXCEPT !.ccState = s.blockState[blockNum],
                           !.ccDelta = <<>>,
                           !.isResetting = TRUE,
                           !.sizeReset = blockNum + 1], "")

\* Ledger.ConcludeReset (blockchain.endReset)
ConcludeReset(s) == [s EXCEPT !.isResetting = FALSE]

\* A plausible slip: the replayed block is committed as a new block is, the
\* values of the committed tx-set delta written to the store with it.
CommitResetTxBatchWithTxSetState(s, fails) ==
    IF ~s.isResetting THEN Outcome(s, "blockchain is not in a reset status")
    ELSE IF fails THEN Outcome(ResetForNextTxGroup(s), "db write failed")
    ELSE Outcome([PersistChaincode(s, GetCurrentBlockEx(s)) EXCEPT
                     !.sizeReset = @ + 1,
                     !.db = [k \in DOMAIN s.db \cup DOMAIN s.committed |->
                                IF k \in DOMAIN s.committed THEN s.committed[k].value
                                ELSE s.db[k]]], "")

\* Ledger.CommitResetTxBatch
CommitResetTxBatch(s, fails) ==
    IF ~s.isResetting THEN Outcome(s, "blockchain is not in a reset status")
    ELSE IF fails THEN Outcome(ResetForNextTxGroup(s), "db write failed")
    ELSE Outcome([PersistChaincode(s, GetCurrentBlockEx(s)) EXCEPT !.sizeReset = @ + 1], "")

\* ApplyMutations, the body of the loop over the transactions of a block, for
\* the non mutant transaction t: p is what prevDefault returned.  The error
\* of Execute is logged and dropped.
ReplayTx(s, t, p) ==
    IF p.panic THEN p
    ELSE IF p.err # ""
        THEN Outcome(s, "Unable to verify the previous default transaction")
    ELSE [Execute(s, t) EXCEPT !.err = IF @ = "panic" THEN @ ELSE ""]

\* The ledger when the VM call of position j of the block being replayed is
\* one of those that fail (vmFailsAt: pairs of block number and position).
VmAt(s, j, vmFailsAt) ==
    [s EXCEPT !.vmFails = <<GetCurrentBlockEx(s), j>> \in vmFailsAt]

\* ApplyMutations, the loop over the transactions of the block being replayed:
\* txs[j..] are still to do.  out collects the candidates dispatched.
RECURSIVE ReplayTxs(_, _, _, _, _)
\* r is the outcome of the loop body for txs[j].
ReplayTxsAfter(r, txs, j, io, out) ==
    IF r.panic \/ r.err # "" THEN [r EXCEPT !.out = out, !.s.vmFails = FALSE]
    ELSE ReplayTxs([r.s EXCEPT !.vmFails = FALSE], txs, j + 1, io, out \o r.out)

ReplayTxs(s, txs, j, io, out) ==
    IF j > Len(txs) THEN [Outcome(s, "") EXCEPT !.out = out]
    ELSE IF txs[j].kind = "mutant" THEN ReplayTxs(s, txs, j + 1, io, out)
    ELSE ReplayTxsAfter(ReplayTx(VmAt(s, j, io.vmFailsAt), txs[j],
                                 PrevDefault(s, txs[j].txid)),
                        txs, j, io, out)

\* ApplyMutations, the loop over the blocks i .. last - 1.
RECURSIVE ReplayBlocks(_, _, _, _, _)
\* c is what CommitResetTxBatch returned for block i.
ReplayBlocksAfterCommit(c, i, last, io, out) ==
    IF c.err # ""
    THEN [Outcome(c.s, "Failed to commit transaction to the ledger") EXCEPT !.out = out]
    ELSE ReplayBlocks(c.s, i + 1, last, io, out)

\* r is the outcome of the loop over the transactions of block i.
ReplayBlocksAfterTxs(r, i, last, io) ==
    IF r.panic \/ r.err # "" THEN r
    ELSE ReplayBlocksAfterCommit(CommitResetTxBatch(r.s, io.commitFailsAt = i),
                                 i, last, io, r.out)

\* A plausible slip: the loop stops one block short of the head.
ReplayBlocksButLast(s, i, last, io, out) ==
    IF i + 1 >= last THEN [Outcome(s, "") EXCEPT !.out = out]
    ELSE IF io.missingBlockAt = i
        THEN [Outcome(s, "Unable to retrieve the block") EXCEPT !.out = out]
    ELSE ReplayBlocksAfterTxs(ReplayTxs(s, s.blocks[i + 1], 1, io, out), i, last, io)

ReplayBlocks(s, i, last, io, out) ==
    IF i >= last THEN [Outcome(s, "") EXCEPT !.out = out]
    ELSE IF io.missingBlockAt = i
        THEN [Outcome(s, "Unable to retrieve the block") EXCEPT !.out = out]
    ELSE ReplayBlocksAfterTxs(ReplayTxs(s, s.blocks[i + 1], 1, io, out), i, last, io)

\* ApplyMutations when ResetToBlock failed: recovered is what the recovery
\* ResetToBlock returned.
ResetRecovered(recovered) ==
    IF recovered.err # ""
    THEN Outcome(recovered.s, "Error while recovering the state")
    ELSE Outcome(ConcludeReset(recovered.s),
                 "Unable to apply the mutant transactions changes")

\* A plausible slip: ConcludeReset is called on the normal path only, not
\* deferred.
ReplayConcludedOnSuccess(replayed) ==
    IF replayed.panic \/ replayed.err # "" THEN replayed
    ELSE [replayed EXCEPT !.s = ConcludeReset(@)]

\* ApplyMutations at its return: the deferred ConcludeReset runs.
ReplayConcluded(replayed) ==
    IF replayed.panic THEN replayed ELSE [replayed EXCEPT !.s = ConcludeReset(@)]

\* ApplyMutations from the first ResetToBlock on: reset is what it returned.
ApplyMutationsAfterReset(s, reset, restartBlockNum, io) ==
    IF reset.err # ""
    THEN ResetRecovered(ResetToBlock(ConcludeReset(reset.s), GetBlockchainSize(s),
                                     io.recoverFails))
    ELSE ReplayConcluded(ReplayBlocks(reset.s, restartBlockNum, GetBlockchainSize(s),
                                      io, <<>>))

\* ApplyMutations.  io names the store failures met: resetFails, recoverFails
\* (each one of ResetFailures), missingBlockAt and commitFailsAt (a block
\* number, -1 for none), and the VM calls that fail, vmFailsAt.
ApplyMutations(s, io) ==
    LET m == GetOlderBlockMod(s)
    IN IF ~m.isSet THEN Outcome(s, "")
       ELSE ApplyMutationsAfterReset(s, ResetToBlock(s, USub(m.older, 1), io.resetFails),
                                     m.older, io)

\* ------------------------------------------------------------------ state
VARIABLES
    ledger,        \* the Ledger singleton: tx-set state, blockchain, chaincode state
    pc,            \* where the batch in progress stands
    xacts,         \* ExecuteTransactions: the batch
    i,             \* ExecuteTransactions: position of the loop in progress
    setIndexes,    \* ExecuteTransactions: positions of the non mutant transactions
    txerrs,        \* ExecuteTransactions: error of each transaction ("" for nil)
    succeededTxs,  \* ExecuteTransactions: the transactions executed without error
    applyErr,      \* ExecuteTransactions: what ApplyMutations returned
    last           \* the last call made and its outcome

vars == <<ledger, pc, xacts, i, setIndexes, txerrs, succeededTxs, applyErr, last>>

\* The transactions a batch is made of.
SetTxs ==
    {SetTx(k, n, d, FALSE) : k \in Keys, n \in 1..MaxCand, d \in 0..MaxCand}
    \cup {SetTx(k, n, 0, TRUE) : k \in Keys, n \in 1..MaxCand}
MutantTxs == {MutantTx(k, x) : k \in Keys, x \in 0..MaxIdx}
Txs == SetTxs \cup MutantTxs

Batches == UNION {[1..len -> Txs] : len \in 0..MaxBatch}

\* The store failures ApplyMutations can meet.
NoFailure ==
    [resetFails |-> "", recoverFails |-> "", missingBlockAt |-> -1, commitFailsAt |-> -1,
     vmFailsAt |-> {}]

NoTx == [kind |-> "none", txid |-> "", setID |-> "", n |-> 0, defaultInx |-> 0,
         extend |-> FALSE, index |-> 0]
NoCall == [op |-> "none", tx |-> NoTx, err |-> "", out |-> <<>>]
Call(op, tx, o) == [op |-> op, tx |-> tx, err |-> o.err, out |-> o.out]

\* No GetStateSnapshot call has been made.
NoSnapshotCall ==
    [pc |-> "none", dbSnapshot |-> Nil, err |-> "", unreleased |-> {},
     chainSnap |-> Nil, txSetSnap |-> Nil]

\* GetNewLedger: an empty chain, empty deltas, no batch in progress.
NewLedger ==
    [db |-> <<>>, txSetStateDeltaCF |-> <<>>,
     committed |-> EmptyDelta, current |-> EmptyDelta,
     currentTxID |-> "", txStateDeltaHash |-> <<>>,
     blocks |-> <<>>, isResetting |-> FALSE, sizeReset |-> 0,
     ccState |-> <<>>, ccDelta |-> <<>>, blockState |-> <<>>,
     vmFails |-> FALSE, historyStateDeltaSize |-> HistoryStateDeltaSize,
     snapshotCall |-> NoSnapshotCall, currentID |-> ""]

Init ==
    /\ ledger = NewLedger
    /\ pc = "idle"
    /\ xacts = <<>>
    /\ i = 1
    /\ setIndexes = <<>>
    /\ txerrs = <<>>
    /\ succeededTxs = <<>>
    /\ applyErr = ""
    /\ last = NoCall

\* Ledger.BeginTxBatch, on a chain of fewer than maxBlocks blocks.
BeginTxBatchWithin(maxBlocks) ==
    /\ pc = "idle"
    /\ ledger.currentID = ""
    /\ Len(ledger.blocks) < maxBlocks
    /\ ledger' = [ledger EXCEPT !.currentID = "batch"]
    /\ pc' = "begun"
    /\ last' = NoCall
    /\ UNCHANGED <<xacts, i, setIndexes, txerrs, succeededTxs, applyErr>>

\* ExecuteTransactions, entry: the batch, one of batches, arrives.
ExecuteTransactionsOf(batches) ==
    /\ pc = "begun"
    /\ \E batch \in batches :
        /\ xacts' = batch
        /\ txerrs' = [j \in 1..Len(batch) |-> ""]
    /\ i' = 1
    /\ setIndexes' = <<>>
    /\ succeededTxs' = <<>>
    /\ applyErr' = ""
    /\ pc' = "mutants"
    /\ UNCHANGED <<ledger, last>>

\* The effect of one Execute call made by ExecuteTransactions for xacts[j].
Executed(j, o) ==
    /\ ledger' = o.s
    /\ pc' = IF o.panic THEN "panic" ELSE pc
    /\ last' = Call("Execute", xacts[j], o)
    /\ txerrs' = IF o.panic THEN txerrs ELSE [txerrs EXCEPT ![j] = o.err]
    /\ succeededTxs' = IF ~o.panic /\ o.err = "" THEN Append(succeededTxs, xacts[j])
                       ELSE succeededTxs

\* ExecuteTransactions, first loop: a mutant transaction is executed.
ExecuteMutant ==
    /\ pc = "mutants"
    /\ i <= Len(xacts)
    /\ xacts[i].kind = "mutant"
    /\ Executed(i, Execute(ledger, xacts[i]))
    /\ i' = i + 1
    /\ UNCHANGED <<xacts, setIndexes, applyErr>>

\* A plausible slip: one loop, every transaction executed where it stands.
ExecuteNonMutantInPlace ==
    /\ pc = "mutants"
    /\ i <= Len(xacts)
    /\ xacts[i].kind # "mutant"
    /\ Executed(i, Execute(ledger, xacts[i]))
    /\ i' = i + 1
    /\ UNCHANGED <<xacts, setIndexes, applyErr>>

\* ExecuteTransactions, first loop: a non mutant transaction waits.
DeferNonMutant ==
    /\ pc = "mutants"
    /\ i <= Len(xacts)
    /\ xacts[i].kind # "mutant"
    /\ setIndexes' = Append(setIndexes, i)
    /\ i' = i + 1
    /\ UNCHANGED <<ledger, pc, xacts, txerrs, succeededTxs, applyErr, last>>

\* The call ApplyMutations(), the store failures io it met and its outcome.
AppliedCall(io, o) ==
    [op |-> "ApplyMutations", tx |-> NoTx, err |-> o.err, out |-> o.out, io |-> io]

\* The effect of the ApplyMutations call made by ExecuteTransactions.
Applied(io, o) ==
    /\ ledger' = o.s
    /\ applyErr' = o.err
    /\ last' = AppliedCall(io, o)
    /\ pc' = IF o.panic THEN "panic" ELSE "sets"

\* ExecuteTransactions: the mutants are done, ApplyMutations runs and the
\* store meets one of failures.
RunApplyMutationsUnder(failures) ==
    /\ pc = "mutants"
    /\ i > Len(xacts)
    /\ \E io \in failures : Applied(io, ApplyMutations(ledger, io))
    /\ i' = 1
    /\ UNCHANGED <<xacts, setIndexes, txerrs, succeededTxs>>

\* ExecuteTransactions, second loop: a non mutant transaction is executed.
ExecuteNonMutant ==
    /\ pc = "sets"
    /\ i <= Len(setIndexes)
    /\ Executed(setIndexes[i], Execute(ledger, xacts[setIndexes[i]]))
    /\ i' = i + 1
    /\ UNCHANGED <<xacts, setIndexes, applyErr>>

\* ExecuteTransactions returns.
ReturnFromExecuteTransactions ==
    /\ pc = "sets"
    /\ i > Len(setIndexes)
    /\ pc' = "executed"
    /\ UNCHANGED <<ledger, xacts, i, setIndexes, txerrs, succeededTxs, applyErr, last>>

\* TxSetStateDelta.Marshal: the stored form of a delta, one entry per updated
\* TxSetID carrying the key, the previous value, the new value and the flag.
Marshal(delta) ==
    {[key |-> k, previous |-> delta[k].previous, value |-> delta[k].value,
      isMutant |-> delta[k].isMutant] : k \in DOMAIN delta}

\* TxSetStateDelta.Unmarshal: the delta rebuilt from its stored form.
Unmarshal(bytes) ==
    [k \in {e.key : e \in bytes} |->
        LET e == CHOOSE e \in bytes : e.key = k
        IN [previous |-> e.previous, value |-> e.value, isMutant |-> e.isMutant]]

\* TxSetState.FetchStateDeltaFromDB: nothing when no delta is stored under
\* blockNumber, the stored delta otherwise.
FetchStateDeltaFromDB(s, blockNumber) ==
    IF blockNumber \in DOMAIN s.txSetStateDeltaCF
    THEN Some(Unmarshal(s.txSetStateDeltaCF[blockNumber]))
    ELSE Nil

\* A plausible slip: the delta of the block is stored and no older delta is
\* ever deleted.
AddChangesForPersistenceKeepingAll(s, blockNumber) ==
    [s EXCEPT
        !.db = [k \in DOMAIN s.db \cup DOMAIN s.committed |->
                   IF k \in DOMAIN s.committed THEN s.committed[k].value ELSE s.db[k]],
        !.txSetStateDeltaCF =
            [b \in DOMAIN s.txSetStateDeltaCF \cup {blockNumber} |->
                IF b = blockNumber THEN Marshal(s.committed)
                ELSE s.txSetStateDeltaCF[b]]]

\* TxSetState.AddChangesForPersistence, once the write batch is written: the
\* values of the committed delta are in the txSetState column family, the
\* delta is stored under blockNumber and the delta of the block
\* historyStateDeltaSize earlier is deleted.
AddChangesForPersistence(s, blockNumber) ==
    LET put == [b \in DOMAIN s.txSetStateDeltaCF \cup {blockNumber} |->
                   IF b = blockNumber THEN Marshal(s.committed)
                   ELSE s.txSetStateDeltaCF[b]]
        blockNumberToDelete == USub(blockNumber, s.historyStateDeltaSize)
    IN [s EXCEPT
           !.db = [k \in DOMAIN s.db \cup DOMAIN s.committed |->
                      IF k \in DOMAIN s.committed THEN s.committed[k].value ELSE s.db[k]],
           !.txSetStateDeltaCF =
               IF blockNumber >= s.historyStateDeltaSize
               THEN [b \in DOMAIN put \ {blockNumberToDelete} |-> put[b]]
               ELSE put]

\* The failures Ledger.CommitTxBatch can meet: the hash of the chaincode
\* state, the hash of the tx-set state, the block's persistence changes and the
\* write of the batch.
CommitFailures ==
    [ccHashFails : BOOLEAN, setHashFails : BOOLEAN, blockFails : BOOLEAN,
     writeFails : BOOLEAN]
\* The write of the batch is the only step that may fail (the raw tx-set
\* state computes no hash).
WriteFailures ==
    {io \in CommitFailures : ~io.ccHashFails /\ ~io.setHashFails /\ ~io.blockFails}

\* Ledger.CommitTxBatch from the tx-set state hash on: s is the state the hash
\* step left.
CommitTxBatchAfterHashes(s, transactions, io) ==
    IF io.blockFails THEN Outcome(ResetForNextTxGroup(s), "block persistence failed")
    ELSE IF io.writeFails THEN Outcome(ResetForNextTxGroup(s), "db write failed")
    ELSE Outcome(
            ResetForNextTxGroup(
                [AddChangesForPersistence(PersistChaincode(s, GetBlockchainSize(s)),
                                          GetBlockchainSize(s))
                    EXCEPT !.blocks = Append(@, transactions)]), "")

\* Ledger.CommitTxBatch with the given transactions.  When the tx-set state
\* hash fails the ledger is reset and the function goes on.
CommitTxBatchOp(s, transactions, io) ==
    IF io.ccHashFails THEN Outcome(ResetForNextTxGroup(s), "chaincode state hash failed")
    ELSE CommitTxBatchAfterHashes(IF io.setHashFails THEN ResetForNextTxGroup(s) ELSE s,
                                  transactions, io)

\* The batch is over: what ExecuteTransactions returned goes out of scope.
BatchForgotten ==
    /\ xacts' = <<>>
    /\ i' = 1
    /\ setIndexes' = <<>>
    /\ txerrs' = <<>>
    /\ succeededTxs' = <<>>
    /\ applyErr' = ""

\* The effect of the CommitTxBatch call that returned o.
Committed(o) ==
    /\ ledger' = o.s
    /\ last' = Call("CommitTxBatch", NoTx, o)

\* Ledger.CommitTxBatch: the caller commits the transactions that succeeded,
\* and the store meets one of failures.
CommitTxBatchUnder(failures) ==
    /\ pc = "executed"
    /\ ledger.currentID = "batch"
    /\ \E io \in failures : Committed(CommitTxBatchOp(ledger, succeededTxs, io))
    /\ pc' = "idle"
    /\ BatchForgotten

\* Ledger.RollbackTxBatch
RollbackTxBatch ==
    /\ pc = "executed"
    /\ ledger.currentID = "batch"
    /\ ledger' = ResetForNextTxGroup(ledger)
    /\ last' = Call("RollbackTxBatch", NoTx, Outcome(ledger, ""))
    /\ pc' = "idle"
    /\ BatchForgotten

BeginTxBatch == BeginTxBatchWithin(MaxBlocks)
RunApplyMutations == RunApplyMutationsUnder({NoFailure})
ExecuteTransactions == ExecuteTransactionsOf(Batches)
CommitTxBatch == CommitTxBatchUnder(WriteFailures)

Next ==
    \/ BeginTxBatch
    \/ ExecuteTransactions
    \/ ExecuteMutant
    \/ DeferNonMutant
    \/ RunApplyMutations
    \/ ExecuteNonMutant
    \/ ReturnFromExecuteTransactions
    \/ CommitTxBatch
    \/ RollbackTxBatch

Spec == Init /\ [][Next]_vars

\* A longer chain of smaller batches: the chains on which a set is introduced,
\* extended in a later block and mutated after that.
LongChainBatches == UNION {[1..len -> Txs] : len \in 0..LongChainBatch}
LongChainBeginTxBatch == BeginTxBatchWithin(LongChainBlocks)
LongChainExecuteTransactions == ExecuteTransactionsOf(LongChainBatches)

LongChainNext ==
    \/ LongChainBeginTxBatch
    \/ LongChainExecuteTransactions
    \/ ExecuteMutant
    \/ DeferNonMutant
    \/ RunApplyMutations
    \/ ExecuteNonMutant
    \/ ReturnFromExecuteTransactions
    \/ CommitTxBatch
    \/ RollbackTxBatch

LongChainSpec == Init /\ [][LongChainNext]_vars

\* -------------------------------------------- commits under store failures
\* The batch protocol on a store that may fail at any step of CommitTxBatch:
\* the two hashes, the block's persistence changes, the write of the batch.
CommitBeginTxBatch == BeginTxBatchWithin(CommitBlocks)
FailingCommitTxBatch == CommitTxBatchUnder(CommitFailures)

CommitNext ==
    \/ CommitBeginTxBatch
    \/ ExecuteTransactions
    \/ ExecuteMutant
    \/ DeferNonMutant
    \/ RunApplyMutations
    \/ ExecuteNonMutant
    \/ ReturnFromExecuteTransactions
    \/ FailingCommitTxBatch
    \/ RollbackTxBatch

CommitSpec == Init /\ [][CommitNext]_vars

\* ------------------------------------------ two mutants in one batch
\* The longer chain, with batches of two mutant transactions besides its
\* batches of one transaction.
DoubleMutantNext ==
    \/ LongChainBeginTxBatch
    \/ ExecuteTransactionsOf(LongChainBatches
                                 \cup {<<m1, m2>> : m1 \in MutantTxs, m2 \in MutantTxs})
    \/ ExecuteMutant
    \/ DeferNonMutant
    \/ RunApplyMutations
    \/ ExecuteNonMutant
    \/ ReturnFromExecuteTransactions
    \/ CommitTxBatch
    \/ RollbackTxBatch

DoubleMutantSpec == Init /\ [][DoubleMutantNext]_vars

\* ------------------------------------------ batches on a VM that may fail
\* Execute while the chaincode VM fails its call (a launch or execution
\* failure, a timeout, a cancellation), or does not.
ExecuteOnVm(s, t, fails) ==
    LET o == Execute([s EXCEPT !.vmFails = fails], t)
    IN [o EXCEPT !.s.vmFails = FALSE]

\* ExecuteTransactions, second loop, on such a VM.
ExecuteNonMutantOnVm ==
    /\ pc = "sets"
    /\ i <= Len(setIndexes)
    /\ \E fails \in BOOLEAN :
          Executed(setIndexes[i], ExecuteOnVm(ledger, xacts[setIndexes[i]], fails))
    /\ i' = i + 1
    /\ UNCHANGED <<xacts, setIndexes, applyErr>>

FailingVmNext ==
    \/ BeginTxBatch
    \/ ExecuteTransactions
    \/ ExecuteMutant
    \/ DeferNonMutant
    \/ RunApplyMutations
    \/ ExecuteNonMutantOnVm
    \/ ReturnFromExecuteTransactions
    \/ CommitTxBatch
    \/ RollbackTxBatch

FailingVmSpec == Init /\ [][FailingVmNext]_vars

\* ------------------------------------------------------ state snapshots
\* db.GetSnapshot: the store frozen as it is now.
GetSnapshot(s) == [size |-> GetBlockchainSize(s), db |-> s.db, ccState |-> s.ccState]

\* stcomm.NewStateSnapshot
NewStateSnapshot(blockNumber, dbSnapshot) ==
    [blockNumber |-> blockNumber, dbSnapshot |-> dbSnapshot]


\* Ledger.GetStateSnapshot after its first db.GetSnapshot returned first: the
\* second snapshot is taken of the store as it is now, and the call returns.
GetStateSnapshotRest(s, first, io) ==
    LET dbSnapshotForTxSet == GetSnapshot(s)
        blockHeight == first.size
        returned == [NoSnapshotCall EXCEPT !.pc = "returned"]
    IN IF io = "height"
       THEN [returned EXCEPT !.err = "unable to read the blockchain size",
                             !.unreleased = {"dbSnapshotForTxSet"}]
       ELSE IF blockHeight = 0
       THEN [returned EXCEPT !.err = "Blockchain has no blocks",
                             !.unreleased = {"dbSnapshotForTxSet"}]
       ELSE IF io = "chaincode"
       THEN [returned EXCEPT !.err = "chaincode snapshot failed",
                             !.unreleased = {"dbSnapshot", "dbSnapshotForTxSet"}]
       ELSE IF io = "chaincodeReleasing"
       THEN [returned EXCEPT !.err = "chaincode snapshot failed",
                             !.unreleased = {"dbSnapshotForTxSet"}]
       ELSE IF io = "txset"
       THEN [returned EXCEPT
                !.chainSnap = Some(NewStateSnapshot(USub(blockHeight, 1), first)),
                !.unreleased = {"dbSnapshotForTxSet"}]
       ELSE [returned EXCEPT
                !.chainSnap = Some(NewStateSnapshot(USub(blockHeight, 1), first)),
                !.txSetSnap = Some(NewStateSnapshot(USub(blockHeight, 1),
                                                    dbSnapshotForTxSet))]

\* Ledger.GetStateSnapshot, called by a reader that runs beside the writer:
\* its first db.GetSnapshot.
SnapshotFirst ==
    /\ pc # "panic"
    /\ ledger.snapshotCall.pc \in {"none", "returned"}
    /\ ledger' = [ledger EXCEPT
                     !.snapshotCall = [NoSnapshotCall EXCEPT
                                          !.pc = "first",
                                          !.dbSnapshot = Some(GetSnapshot(ledger))]]
    /\ UNCHANGED <<pc, xacts, i, setIndexes, txerrs, succeededTxs, applyErr, last>>

\* Ledger.GetStateSnapshot, from its second db.GetSnapshot to its return.
\* io is what the call meets: no failure, the block height cannot be read
\* from the snapshot, the chaincode state cannot open its iterator (and
\* releases the db snapshot it was given, or does not), the tx-set state
\* cannot open its iterator.
SnapshotRest ==
    /\ pc # "panic"
    /\ ledger.snapshotCall.pc = "first"
    /\ \E io \in {"", "height", "chaincode", "chaincodeReleasing", "txset"} :
          ledger' = [ledger EXCEPT
                        !.snapshotCall =
                            GetStateSnapshotRest(ledger, Val(@.dbSnapshot), io)]
    /\ UNCHANGED <<pc, xacts, i, setIndexes, txerrs, succeededTxs, applyErr, last>>

SnapshotNext ==
    \/ CommitBeginTxBatch
    \/ ExecuteTransactions
    \/ ExecuteMutant
    \/ DeferNonMutant
    \/ RunApplyMutations
    \/ ExecuteNonMutant
    \/ ReturnFromExecuteTransactions
    \/ CommitTxBatch
    \/ RollbackTxBatch
    \/ SnapshotFirst
    \/ SnapshotRest

SnapshotSpec == Init /\ [][SnapshotNext]_vars

\* ------------------------------------------ queries of the active candidate
\* Ledger.GetCurrentDefaultByID, called between two batches for the set k: the
\* ledger is read, not written.
GetCurrentDefaultByID(s, k) ==
    IF DOMAIN TxIdxMap(s, k) = {}
    THEN Outcome(s, "unable to retrieve queried txsetid default transaction")
    ELSE LET found == GetTransactionByID(s, k)
         IN GetCurrentDefault(s, found.tx, found.blockNr, FALSE)

QueryCurrentDefault ==
    /\ pc = "idle"
    /\ \E k \in Keys :
          LET o == GetCurrentDefaultByID(ledger, k)
          IN /\ last' = [op |-> "GetCurrentDefaultByID", tx |-> NoTx, err |-> o.err,
                         out |-> o.out, setID |-> k]
             /\ pc' = IF o.panic THEN "panic" ELSE pc
    /\ UNCHANGED <<ledger, xacts, i, setIndexes, txerrs, succeededTxs, applyErr>>

DefaultNext ==
    \/ LongChainBeginTxBatch
    \/ LongChainExecuteTransactions
    \/ ExecuteMutant
    \/ DeferNonMutant
    \/ RunApplyMutations
    \/ ExecuteNonMutant
    \/ ReturnFromExecuteTransactions
    \/ CommitTxBatch
    \/ RollbackTxBatch
    \/ QueryCurrentDefault

DefaultSpec == Init /\ [][DefaultNext]_vars

\* ------------------------------------------------ PositionForIndex alone
\* PositionForIndex called on the values Execute builds: each extension
\* appends an entry for a later block whose inBlockIndex, txNumber - 1, is
\* larger than the one before.
PositionMaxLen == 3
PositionMaxIndex == 4
PositionValues ==
    {[ZeroValue EXCEPT
         !.indexAtBlock = [j \in 1..Len(q) |-> TxSetIndex(j, q[j])],
         !.txNumber = IF q = <<>> THEN 0 ELSE Last(q) + 1,
         !.introBlock = IF q = <<>> THEN 0 ELSE 1,
         !.lastModifiedAtBlock = Len(q)] :
        q \in {r \in UNION {[1..n -> 0..PositionMaxIndex] : n \in 0..PositionMaxLen} :
                  \A j \in 1..(Len(r) - 1) : r[j] < r[j + 1]}}

\* A value and an index to look for are at hand.
PositionInput ==
    \E v \in PositionValues, inx \in 0..(PositionMaxIndex + 1) :
        last' = [op |-> "input", value |-> v, inx |-> inx]

PositionInit ==
    /\ ledger = NewLedger
    /\ pc = "idle"
    /\ xacts = <<>>
    /\ i = 1
    /\ setIndexes = <<>>
    /\ txerrs = <<>>
    /\ succeededTxs = <<>>
    /\ applyErr = ""
    /\ \E v \in PositionValues, inx \in 0..(PositionMaxIndex + 1) :
           last = [op |-> "input", value |-> v, inx |-> inx]

\* The caller takes another value and index.
PositionNewInput ==
    /\ last.op = "PositionForIndex"
    /\ PositionInput
    /\ UNCHANGED <<ledger, pc, xacts, i, setIndexes, txerrs, succeededTxs, applyErr>>

\* TxSetStateValue.PositionForIndex on the value and index at hand.
CallPositionForIndex ==
    /\ last.op = "input"
    /\ last' = [op |-> "PositionForIndex", value |-> last.value, inx |-> last.inx,
                result |-> PositionForIndex(last.value, last.inx)]
    /\ UNCHANGED <<ledger, pc, xacts, i, setIndexes, txerrs, succeededTxs, applyErr>>

PositionNext ==
    \/ CallPositionForIndex
    \/ PositionNewInput

PositionSpec == PositionInit /\ [][PositionNext]_vars

\* ------------------------------------------------ rollbacks under any id

\* A plausible slip: the batch is discarded whatever the id.
RollbackTxBatchUnchecked(s, id) == Outcome(ResetForNextTxGroup(s), "")

\* Ledger.RollbackTxBatch with the given id.
RollbackTxBatchOp(s, id) ==
    IF s.currentID # id THEN Outcome(s, "Another TxGroup already in-progress")
    ELSE Outcome(ResetForNextTxGroup(s), "")

\* What the RollbackTxBatch call with id that returned o leaves behind; dirty
\* tells whether the batch had tx-set changes when the call was made.
RollbackCall(id, o) ==
    [op |-> "RollbackTxBatch", tx |-> NoTx, err |-> o.err, out |-> o.out,
     id |-> id, dirty |-> ledger.committed # EmptyDelta]

\* Ledger.RollbackTxBatch called between two calls of the batch protocol with
\* any id (the id of the batch, another id, or nil): a refused call leaves
\* the caller where it was, an accepted one ends the batch.
RollbackTxBatchWithAnyID ==
    /\ pc \in {"idle", "begun", "executed"}
    /\ \E id \in {"batch", "other", ""} :
          LET o == RollbackTxBatchOp(ledger, id)
          IN /\ ledger' = o.s
             /\ last' = RollbackCall(id, o)
             /\ IF o.err = ""
                THEN pc' = "idle" /\ BatchForgotten
                ELSE UNCHANGED <<pc, xacts, i, setIndexes, txerrs, succeededTxs,
                                 applyErr>>

AbortNext ==
    \/ BeginTxBatch
    \/ ExecuteTransactions
    \/ ExecuteMutant
    \/ DeferNonMutant
    \/ RunApplyMutations
    \/ ExecuteNonMutant
    \/ ReturnFromExecuteTransactions
    \/ CommitTxBatch
    \/ RollbackTxBatchWithAnyID

AbortSpec == Init /\ [][AbortNext]_vars

\* ------------------------------------------ every accepted history depth
\* The batch protocol on a ledger whose configuration sets any history depth
\* loadConfig accepts: it refuses only the negative ones.
HistoryInit ==
    /\ \E depth \in 0..HistoryStateDeltaSize :
           ledger = [NewLedger EXCEPT !.historyStateDeltaSize = depth]
    /\ pc = "idle"
    /\ xacts = <<>>
    /\ i = 1
    /\ setIndexes = <<>>
    /\ txerrs = <<>>
    /\ succeededTxs = <<>>
    /\ applyErr = ""
    /\ last = NoCall

HistoryNext ==
    \/ BeginTxBatch
    \/ ExecuteTransactions
    \/ ExecuteMutant
    \/ DeferNonMutant
    \/ RunApplyMutations
    \/ ExecuteNonMutant
    \/ ReturnFromExecuteTransactions
    \/ CommitTxBatch
    \/ RollbackTxBatch

HistorySpec == HistoryInit /\ [][HistoryNext]_vars

\* -------------------------------------------- replays under store failures
\* The batch protocol on a store that may fail during ApplyMutations: at the
\* rollback, at the recovery that follows a failed rollback, at the read of a
\* block to replay or at the commit of a replayed block (the blocks a replay
\* can reach are 1 .. MaxBlocks - 2).
ReplayFailures ==
    {io \in [resetFails : ResetFailures, recoverFails : ResetFailures,
             missingBlockAt : {-1} \cup (1..(MaxBlocks - 2)),
             commitFailsAt : {-1} \cup (1..(MaxBlocks - 2)), vmFailsAt : {{}}] :
        /\ io.resetFails = "" => io.recoverFails = ""
        /\ io.resetFails # "" => io.missingBlockAt = -1 /\ io.commitFailsAt = -1
        /\ io.missingBlockAt = -1 \/ io.commitFailsAt = -1}

FailingRunApplyMutations == RunApplyMutationsUnder(ReplayFailures)

\* Ledger.CommitTxBatch and Ledger.RollbackTxBatch when the ledger has no batch
\* in progress (checkValidIDCommitORRollback): an error, nothing changes.
RefusedTxBatch ==
    /\ pc = "executed"
    /\ ledger.currentID # "batch"
    /\ last' = Call("CommitTxBatch", NoTx,
                    Outcome(ledger, "Another TxGroup already in-progress"))
    /\ pc' = "idle"
    /\ BatchForgotten
    /\ UNCHANGED ledger

FailingReplayNext ==
    \/ BeginTxBatch
    \/ ExecuteTransactions
    \/ ExecuteMutant
    \/ DeferNonMutant
    \/ FailingRunApplyMutations
    \/ ExecuteNonMutant
    \/ ReturnFromExecuteTransactions
    \/ CommitTxBatch
    \/ RollbackTxBatch
    \/ RefusedTxBatch

FailingReplaySpec == Init /\ [][FailingReplayNext]_vars

\* ------------------------------------------ replays whose rollback may fail
\* The batch protocol on a store that may fail at the rollback ApplyMutations
\* starts with, and at no other point.
RollbackFailures ==
    {[NoFailure EXCEPT !.resetFails = f] : f \in ResetFailures}

RollbackFailingApplyMutations == RunApplyMutationsUnder(RollbackFailures)

RollbackNext ==
    \/ BeginTxBatch
    \/ ExecuteTransactions
    \/ ExecuteMutant
    \/ DeferNonMutant
    \/ RollbackFailingApplyMutations
    \/ ExecuteNonMutant
    \/ ReturnFromExecuteTransactions
    \/ CommitTxBatch
    \/ RollbackTxBatch

RollbackSpec == Init /\ [][RollbackNext]_vars

\* ----------------------------------------- replays on a VM that may fail
\* The longer chain, replayed while the chaincode VM fails some of the calls
\* it gets from the replay.
VmFailures ==
    {[NoFailure EXCEPT !.vmFailsAt = f] :
        f \in SUBSET {<<b, 1>> : b \in 1..(LongChainBlocks - 2)}}

VmFailingApplyMutations == RunApplyMutationsUnder(VmFailures)

VmNext ==
    \/ LongChainBeginTxBatch
    \/ LongChainExecuteTransactions
    \/ ExecuteMutant
    \/ DeferNonMutant
    \/ VmFailingApplyMutations
    \/ ExecuteNonMutant
    \/ ReturnFromExecuteTransactions
    \/ CommitTxBatch
    \/ RollbackTxBatch

VmSpec == Init /\ [][VmNext]_vars

\* ------------------------------------------- the TxSetState store on its own
\* The store's methods called one at a time, in any order, as its callers may.
StoreTxIDs == {"t1", "t2"}
StoreValues ==
    {[ZeroValue EXCEPT !.nonce = 1, !.index = x, !.txNumber = MaxIdx + 1,
                       !.indexAtBlock = <<TxSetIndex(0, MaxIdx)>>] : x \in 0..MaxIdx}

\* The effect of one call on the store.
Stored(op, k, x, o) ==
    /\ pc = "idle"
    /\ ledger' = o.s
    /\ pc' = IF o.panic THEN "panic" ELSE pc
    /\ last' = Call(op, [NoTx EXCEPT !.setID = k, !.index = x], o)
    /\ UNCHANGED <<xacts, i, setIndexes, txerrs, succeededTxs, applyErr>>

\* TxSetState.TxBegin
StoreTxBegin == \E id \in StoreTxIDs : Stored("TxBegin", "", 0, TxBegin(ledger, id))

\* TxSetState.Set
StoreSet ==
    \E k \in Keys, v \in StoreValues : Stored("Set", k, v.index, StateSet(ledger, k, v))

\* TxSetState.TxFinish
StoreTxFinish ==
    \E id \in StoreTxIDs, txSuccessful \in BOOLEAN :
        Stored("TxFinish", "", 0, TxFinish(ledger, id, txSuccessful))

\* TxSetState.ClearInMemoryChanges
StoreClearInMemoryChanges ==
    Stored("ClearInMemoryChanges", "", 0, Outcome(ClearInMemoryChanges(ledger), ""))

\* TxSetState.AddChangesForPersistence, the write of the batch, and the
\* ClearInMemoryChanges that follows it.
StorePersist ==
    Stored("AddChangesForPersistence", "", 0,
           Outcome(ClearInMemoryChanges(
                       AddChangesForPersistence(ledger, GetBlockchainSize(ledger))), ""))

StoreNext ==
    \/ StoreTxBegin
    \/ StoreSet
    \/ StoreTxFinish
    \/ StoreClearInMemoryChanges
    \/ StorePersist

StoreSpec == Init /\ [][StoreNext]_vars

\* ----------------------------------------------- the store and its getter
\* The call Get(k, committedOnly) and the value it returned.
GetCall(k, committedOnly, o) ==
    [op |-> "Get", tx |-> [NoTx EXCEPT !.setID = k], err |-> "", out |-> <<>>,
     committedOnly |-> committedOnly, value |-> o]

\* TxSetState.Get, called at any point between the other calls on the store.
StoreGet ==
    /\ pc = "idle"
    /\ \E k \in Keys, committedOnly \in BOOLEAN :
          last' = GetCall(k, committedOnly, Get(ledger, k, committedOnly))
    /\ UNCHANGED <<ledger, pc, xacts, i, setIndexes, txerrs, succeededTxs, applyErr>>

GetterNext ==
    \/ StoreTxBegin
    \/ StoreSet
    \/ StoreTxFinish
    \/ StoreClearInMemoryChanges
    \/ StorePersist
    \/ StoreGet

GetterSpec == Init /\ [][GetterNext]_vars

\* --------------------------------------------- the writer called on its own
\* Ledger.SetTxSetState is exported: the values it is handed here are any
\* TxSetStateValue over small fields, one write between SetTxBegin and
\* SetTxFinished as Execute does, on a store filled by earlier such writes.
WriterBlocks == 1..2
WriterMaxNonce == 2
WriterMaxTxNumber == 2
WriterEntries ==
    {TxSetIndex(b, x) : b \in WriterBlocks, x \in 0..(WriterMaxTxNumber - 1)}
WriterIndexAtBlock ==
    {<<>>} \cup {<<e>> : e \in WriterEntries}
           \cup {<<e, f>> : e \in WriterEntries, f \in WriterEntries}
WriterValues ==
    [nonce : 1..WriterMaxNonce, introBlock : 0..1, lastModifiedAtBlock : WriterBlocks,
     index : 0..1, txNumber : 1..WriterMaxTxNumber, indexAtBlock : WriterIndexAtBlock]

\* The call SetTxSetState(k, v) and its outcome.
WriterCall(k, v, o) ==
    [op |-> "SetTxSetState", tx |-> [NoTx EXCEPT !.setID = k, !.index = v.index],
     err |-> o.err, out |-> o.out, value |-> v]

\* Ledger.SetTxBegin
WriterSetTxBegin ==
    /\ ~txInProgress(ledger)
    /\ Stored("TxBegin", "", 0, TxBegin(ledger, "t1"))

\* Ledger.SetTxSetState, the one write of the transaction just begun.
WriterSetTxSetState ==
    /\ pc = "idle"
    /\ txInProgress(ledger)
    /\ last.op = "TxBegin"
    /\ \E k \in Keys, v \in WriterValues :
          LET o == SetTxSetState(ledger, k, v)
          IN /\ ledger' = o.s
             /\ pc' = IF o.panic THEN "panic" ELSE pc
             /\ last' = WriterCall(k, v, o)
    /\ UNCHANGED <<xacts, i, setIndexes, txerrs, succeededTxs, applyErr>>

\* Ledger.SetTxFinished, successful when the write returned no error.
WriterSetTxFinished ==
    /\ txInProgress(ledger)
    /\ last.op = "SetTxSetState"
    /\ Stored("TxFinish", "", 0, TxFinish(ledger, ledger.currentTxID, last.err = ""))

\* The block is committed: the committed delta reaches the store and the
\* in-memory changes are cleared.
WriterPersist ==
    /\ ~txInProgress(ledger)
    /\ Stored("AddChangesForPersistence", "", 0,
              Outcome(ClearInMemoryChanges(
                          AddChangesForPersistence(ledger, GetBlockchainSize(ledger))), ""))

WriterNext ==
    \/ WriterSetTxBegin
    \/ WriterSetTxSetState
    \/ WriterSetTxFinished
    \/ WriterPersist

WriterSpec == Init /\ [][WriterNext]_vars

\* ------------------------------------- the store asked for its oldest mutant
\* Two sets, introduced in different blocks, written through the store's
\* methods, and GetOlderBlockMod called at any point in between.
OlderKeys == {"A", "B"}
OlderBlocks == 1..2
OlderValues ==
    {[ZeroValue EXCEPT !.nonce = 1, !.introBlock = b, !.lastModifiedAtBlock = b,
                       !.index = x, !.txNumber = 2,
                       !.indexAtBlock = <<TxSetIndex(b, 1)>>] :
        b \in OlderBlocks, x \in 0..1}

\* The call GetOlderBlockMod() and what it returned.
OlderCall(m) ==
    [op |-> "GetOlderBlockMod", tx |-> NoTx, err |-> "", out |-> <<>>,
     older |-> m.older, isSet |-> m.isSet]

\* TxSetState.TxBegin
OlderTxBegin == Stored("TxBegin", "", 0, TxBegin(ledger, "t1"))

\* TxSetState.Set
OlderSet ==
    \E k \in OlderKeys, v \in OlderValues :
        Stored("Set", k, v.index, StateSet(ledger, k, v))

\* TxSetState.TxFinish
OlderTxFinish ==
    \E txSuccessful \in BOOLEAN :
        Stored("TxFinish", "", 0, TxFinish(ledger, "t1", txSuccessful))

\* TxSetState.GetOlderBlockMod
OlderGetOlderBlockMod ==
    /\ pc = "idle"
    /\ last' = OlderCall(GetOlderBlockMod(ledger))
    /\ UNCHANGED <<ledger, pc, xacts, i, setIndexes, txerrs, succeededTxs, applyErr>>

OlderNext ==
    \/ OlderTxBegin
    \/ OlderSet
    \/ OlderTxFinish
    \/ StorePersist
    \/ OlderGetOlderBlockMod

OlderSpec == Init /\ [][OlderNext]_vars

\* --------------------------------------- the store's transaction scope
\* The store's methods called in any order on two sets, each call of TxFinish
\* recorded with its arguments.
ScopeValues == {v \in StoreValues : v.index <= 1}

\* The call TxFinish(txID, txSuccessful) and its outcome.
TxFinishCall(txID, txSuccessful, o) ==
    [op |-> "TxFinish", tx |-> NoTx, err |-> o.err, out |-> o.out,
     txID |-> txID, txSuccessful |-> txSuccessful]

\* TxSetState.Set
ScopeSet ==
    \E k \in OlderKeys, v \in ScopeValues :
        Stored("Set", k, v.index, StateSet(ledger, k, v))

\* TxSetState.TxFinish
ScopeTxFinish ==
    /\ pc = "idle"
    /\ \E id \in StoreTxIDs, txSuccessful \in BOOLEAN :
          LET o == TxFinish(ledger, id, txSuccessful)
          IN /\ ledger' = o.s
             /\ pc' = IF o.panic THEN "panic" ELSE pc
             /\ last' = TxFinishCall(id, txSuccessful, o)
    /\ UNCHANGED <<xacts, i, setIndexes, txerrs, succeededTxs, applyErr>>

ScopeNext ==
    \/ StoreTxBegin
    \/ ScopeSet
    \/ ScopeTxFinish
    \/ StoreClearInMemoryChanges
    \/ StorePersist

ScopeSpec == Init /\ [][ScopeNext]_vars

\* ------------------------------------------------------------ properties
\* The transaction the next Execute call of ExecuteTransactions takes.
ExecutePending ==
    \/ pc = "mutants" /\ i <= Len(xacts) /\ xacts[i].kind = "mutant"
    \/ pc = "sets" /\ i <= Len(setIndexes)
NextTx == IF pc = "mutants" THEN xacts[i] ELSE xacts[setIndexes[i]]
\* This step is an Execute call of ExecuteTransactions (for NextTx).
ExecuteStep == ExecutePending /\ i' = i + 1 /\ last'.op = "Execute"

\* The persisted value of k, the zero value when there is none.
Persisted(s, k) == IF k \in DOMAIN s.db THEN s.db[k] ELSE ZeroValue

\* C1 - Nonce monotonicity: every value persisted to the tx-set store has a
\* nonce exactly 1 greater than the persisted value it replaces, and 1 when
\* it is the first value persisted for its TxSetID.
C1_NonceMonotonic ==
    [][\A k \in DOMAIN ledger'.db :
          Persisted(ledger', k) # Persisted(ledger, k)
              => ledger'.db[k].nonce = Persisted(ledger, k).nonce + 1]_vars

\* The candidate of set k that has logical index x, located by the value v of
\* the set: the entry of indexAtBlock that contributed x names the block, and
\* x counts from the first index that entry contributed.
MemberAt(k, v, x) ==
    LET p == CHOOSE j \in 1..Len(v.indexAtBlock) :
                 /\ x <= v.indexAtBlock[j].inBlockIndex
                 /\ \A h \in 1..(j - 1) : x > v.indexAtBlock[h].inBlockIndex
        start == IF p = 1 THEN 0 ELSE v.indexAtBlock[p - 1].inBlockIndex + 1
    IN Cand(k, v.indexAtBlock[p].blockNr, x - start)

\* The chain executed from genesis with the active indexes of s in force:
\* transaction j.. of block b onward; introduced are the sets met so far.
RECURSIVE FromGenesis(_, _, _, _)
FromGenesis(s, b, j, introduced) ==
    IF b >= Len(s.blocks) THEN <<>>
    ELSE IF j > Len(s.blocks[b + 1]) THEN FromGenesis(s, b + 1, 1, introduced)
    ELSE LET t == s.blocks[b + 1][j]
             v == Val(Get(s, t.txid, FALSE))
         IN IF t.kind # "set" \/ t.txid \in introduced \/ t.extend
            THEN FromGenesis(s, b, j + 1, introduced)
            ELSE IF t.n > 1
            THEN <<MemberAt(t.txid, v, v.index)>>
                 \o FromGenesis(s, b, j + 1, introduced \cup {t.txid})
            ELSE <<Cand(t.txid, b, 0)>> \o FromGenesis(s, b, j + 1, introduced)

\* ApplyMutations has just returned without error after a replay.
Replayed ==
    /\ pc = "sets"
    /\ i = 1
    /\ last.op = "ApplyMutations"
    /\ last.err = ""
    /\ GetOlderBlockMod(ledger).isSet

\* C2 - Replay determinism: after the mutants of the batch are applied and
\* ApplyMutations has run, the chaincode state is the state the whole chain
\* gives when executed from genesis with the new active indexes in force.
C2_ReplayDeterminism ==
    Replayed => ledger.ccState \o ledger.ccDelta = FromGenesis(ledger, 0, 1, {})

\* The errors Execute returns when Ledger.SetTxSetState refused the value.
WriterRejected(err) ==
    err \in {"Unable to create the state for the new set",
             "Unable to set the new state for the Tx Set"}

\* C3 - When the invariant-enforcing writer rejects the value inside Execute,
\* the staged delta, the block's committed delta and the persisted store hold
\* what they held before the transaction started.
C3_RejectedWriteLeavesState ==
    [][(ExecuteStep /\ WriterRejected(last'.err))
          => /\ ledger'.current = ledger.current
             /\ ledger'.committed = ledger.committed
             /\ ledger'.db = ledger.db]_vars

\* The Execute call of this step records a first update of k in the block's
\* committed delta: a successful write of k.
Written(k) ==
    /\ ExecuteStep
    /\ k \notin DOMAIN ledger.committed
    /\ k \in DOMAIN ledger'.committed

\* C4 as stated - after every successful write (introduction, extension or
\* mutation) the last entry of indexAtBlock has inBlockIndex = txNumber - 1
\* and blockNr = lastModifiedAtBlock.
C4_LastEntryAsStated ==
    [][\A k \in Keys : Written(k) =>
          LET v == ledger'.committed[k].value
          IN /\ v.indexAtBlock # <<>>
             /\ Last(v.indexAtBlock).inBlockIndex = v.txNumber - 1
             /\ Last(v.indexAtBlock).blockNr = v.lastModifiedAtBlock]_vars

\* C4 - After every successful write the last entry of indexAtBlock has
\* inBlockIndex = txNumber - 1.  After an introduction or an extension its
\* blockNr is lastModifiedAtBlock; a mutation leaves indexAtBlock as it was and
\* sets lastModifiedAtBlock to the block being built, which is later than the
\* block of the last entry.
C4_LastEntry ==
    [][\A k \in Keys : Written(k) =>
          LET v == ledger'.committed[k].value
              e == Last(v.indexAtBlock)
          IN /\ v.indexAtBlock # <<>>
             /\ e.inBlockIndex = v.txNumber - 1
             /\ IF NextTx.kind = "mutant"
                THEN /\ v.indexAtBlock = Persisted(ledger, k).indexAtBlock
                     /\ v.lastModifiedAtBlock = GetBlockchainSize(ledger)
                     /\ e.blockNr < v.lastModifiedAtBlock
                ELSE e.blockNr = v.lastModifiedAtBlock]_vars

\* A mutant has just been written: the last entry of indexAtBlock names an
\* earlier block than lastModifiedAtBlock.
C4_Witness ==
    /\ last.op = "Execute"
    /\ last.tx.kind = "mutant"
    /\ last.err = ""
    /\ last.tx.setID \in DOMAIN ledger.committed
    /\ LET v == ledger.committed[last.tx.setID].value
       IN /\ v.index = last.tx.index
          /\ Last(v.indexAtBlock).inBlockIndex = v.txNumber - 1
          /\ Last(v.indexAtBlock).blockNr < v.lastModifiedAtBlock

\* C5 - Every value accepted and staged, in the open transaction's delta or in
\* the block's committed delta, has index < txNumber.
C5_IndexBelowTxNumber ==
    /\ \A k \in DOMAIN ledger.current :
           ledger.current[k].value.index < ledger.current[k].value.txNumber
    /\ \A k \in DOMAIN ledger.committed :
           ledger.committed[k].value.index < ledger.committed[k].value.txNumber

\* This step is a TxSetState.Set on k, inside a transaction.
SetStep(k) == last'.op = "Set" /\ last'.tx.setID = k /\ txInProgress(ledger)

C6_WitnessAfterClear ==
    /\ last.op = "Set"
    /\ last.tx.setID \in DOMAIN ledger.current
    /\ last.tx.setID \in DOMAIN ledger.db
    /\ ledger.db[last.tx.setID].index # ledger.current[last.tx.setID].value.index

\* This step is the Execute call of a mutant transaction on set k.
MutantStep(k) == ExecuteStep /\ NextTx.kind = "mutant" /\ NextTx.setID = k

\* C7 - Two mutants on one set in one block: the first one accepted puts its
\* index, and a nonce raised by 1, in the block's committed delta; a later one
\* changes nothing; and when a batch made of mutants is committed the store
\* holds that value, whose nonce is the stored nonce plus 1.
C7_SecondMutantSkipped ==
    [][\A k \in Keys :
          /\ (MutantStep(k) /\ k \notin DOMAIN ledger.committed
                            /\ k \in DOMAIN ledger'.committed)
                => /\ last'.err = ""
                   /\ ledger'.committed[k].value.index = NextTx.index
                   /\ ledger'.committed[k].value.nonce = Persisted(ledger, k).nonce + 1
          /\ (MutantStep(k) /\ k \in DOMAIN ledger.committed)
                => /\ ledger'.committed = ledger.committed
                   /\ ledger'.current = ledger.current
                   /\ ledger'.db = ledger.db
                   /\ pc' = pc
          /\ (/\ pc = "executed"
              /\ last'.op = "CommitTxBatch"
              /\ last'.err = ""
              /\ \A j \in 1..Len(xacts) : xacts[j].kind = "mutant"
              /\ k \in DOMAIN ledger.committed)
                => /\ ledger'.db[k].index = ledger.committed[k].value.index
                   /\ ledger'.db[k].nonce = Persisted(ledger, k).nonce + 1]_vars

\* The second of two mutants of one set, asking another index than the first,
\* has just returned without error: the committed delta holds the first index.
C7_Witness ==
    /\ pc = "mutants"
    /\ i = 3
    /\ last.op = "Execute"
    /\ last.err = ""
    /\ xacts[1].kind = "mutant"
    /\ xacts[2].kind = "mutant"
    /\ xacts[1].setID = xacts[2].setID
    /\ xacts[1].index # xacts[2].index
    /\ txerrs[1] = ""
    /\ xacts[1].setID \in DOMAIN ledger.committed
    /\ ledger.committed[xacts[1].setID].value.index = xacts[1].index

\* C8 - An extension (extend = true) of a set that has no state is rejected
\* with an error whatever the number of its candidates: no tx-set state is
\* created and no candidate reaches the VM.
C8_ExtendNonExistentRejected ==
    [][(/\ ExecuteStep
        /\ NextTx.kind = "set"
        /\ NextTx.extend
        /\ IsNil(Get(ledger, NextTx.txid, FALSE)))
          => /\ last'.err # ""
             /\ pc' = pc
             /\ ledger'.current = ledger.current
             /\ ledger'.committed = ledger.committed
             /\ ledger'.ccDelta = ledger.ccDelta
             /\ last'.out = <<>>]_vars

\* The mutant transaction t may take effect: its set is in the store, and the
\* index it asks for is another one than the stored index, below txNumber.
MutantMayTakeEffect(s, t) ==
    /\ t.setID \in DOMAIN s.db
    /\ t.index # s.db[t.setID].index
    /\ t.index < s.db[t.setID].txNumber

\* C9 - A mutant transaction changes the tx-set state only if its set is in
\* the persisted store and the index asked differs from the current index and
\* is below txNumber; otherwise Execute returns an error, the transaction is
\* finished as unsuccessful and the staged delta, the committed delta and the
\* store are as before.
C9_MutantTakesEffectOnlyIfValid ==
    [][\A k \in Keys : MutantStep(k) =>
          /\ (\/ ledger'.current # ledger.current
              \/ ledger'.committed # ledger.committed
              \/ ledger'.db # ledger.db) => MutantMayTakeEffect(ledger, NextTx)
          /\ ~MutantMayTakeEffect(ledger, NextTx)
                => /\ last'.err \notin {"", "panic"}
                   /\ pc' = pc
                   /\ ledger'.current = ledger.current
                   /\ ledger'.committed = ledger.committed
                   /\ ledger'.db = ledger.db
                   /\ ~txInProgress(ledger')
                   /\ ledger'.txStateDeltaHash = ledger.txStateDeltaHash]_vars

\* A mutant asking an index that is not below txNumber, for a set introduced
\* after block 0, has just been refused.
C9_Witness ==
    /\ last.op = "Execute"
    /\ last.tx.kind = "mutant"
    /\ last.err = "Unable to set the new state for the Tx Set"
    /\ last.tx.setID \in DOMAIN ledger.db
    /\ ledger.db[last.tx.setID].introBlock # 0
    /\ last.tx.index >= ledger.db[last.tx.setID].txNumber
    /\ last.tx.setID \notin DOMAIN ledger.committed

\* The next Execute call introduces set k: a transaction set of at least two
\* candidates, not an extension, with a default index naming one of them, for
\* a TxSetID that has no value, outside replay.
IntroductionStep(k) ==
    /\ ExecuteStep
    /\ ~ledger.isResetting
    /\ NextTx.kind = "set"
    /\ NextTx.txid = k
    /\ ~NextTx.extend
    /\ NextTx.n >= 2
    /\ NextTx.defaultInx < NextTx.n
    /\ IsNil(Get(ledger, k, FALSE))

ExtensionStep(k) ==
    /\ ExecuteStep
    /\ ~ledger.isResetting
    /\ NextTx.kind = "set"
    /\ NextTx.txid = k
    /\ NextTx.extend
    /\ NextTx.n >= 1
    /\ k \in DOMAIN ledger.db
    /\ k \notin DOMAIN ledger.committed
    /\ k \notin DOMAIN ledger.current

C12_MutationFrame ==
    [][\A k \in Keys :
          (MutantStep(k) /\ last'.err = "" /\ k \notin DOMAIN ledger.committed) =>
              LET b == GetBlockchainSize(ledger)
                  v == Persisted(ledger, k)
              IN /\ k \in DOMAIN ledger.db
                 /\ k \in DOMAIN ledger'.committed
                 /\ ledger'.committed[k].value =
                        [nonce |-> v.nonce + 1, introBlock |-> v.introBlock,
                         lastModifiedAtBlock |-> b, index |-> NextTx.index,
                         txNumber |-> v.txNumber, indexAtBlock |-> v.indexAtBlock]
                 /\ ledger'.committed[k].previous = Some(v)
                 /\ ledger'.current = EmptyDelta
                 /\ ledger'.db = ledger.db]_vars

\* A mutant has just been accepted for a set that was introduced in one block
\* and extended in a later one: the value in the committed delta has the index
\* asked and the two indexAtBlock entries of the persisted value.
C12_Witness ==
    /\ last.op = "Execute"
    /\ last.tx.kind = "mutant"
    /\ last.err = ""
    /\ last.tx.setID \in DOMAIN ledger.db
    /\ last.tx.setID \in DOMAIN ledger.committed
    /\ LET v == ledger.db[last.tx.setID]
           w == ledger.committed[last.tx.setID].value
       IN /\ Len(v.indexAtBlock) = 2
          /\ v.index # last.tx.index
          /\ w.index = last.tx.index
          /\ w.nonce = v.nonce + 1
          /\ w.indexAtBlock = v.indexAtBlock
          /\ w.txNumber = v.txNumber
          /\ w.introBlock = v.introBlock
          /\ w.lastModifiedAtBlock = GetBlockchainSize(ledger)

\* The rules of the invariant-enforcing writer, for the value v written over
\* the previous persisted value prev (the zero value when there is none).
WriterRulesHold(prev, v) ==
    /\ v.nonce = prev.nonce + 1
    /\ prev.introBlock # 0 => v.introBlock = prev.introBlock
    /\ IF prev.introBlock # 0 /\ v.index # prev.index
       THEN /\ prev.lastModifiedAtBlock < v.lastModifiedAtBlock
            /\ v.txNumber = prev.txNumber
            /\ v.index < v.txNumber
            /\ v.indexAtBlock = prev.indexAtBlock
       ELSE /\ v.txNumber >= prev.txNumber
            /\ v.indexAtBlock # <<>>
            /\ Last(v.indexAtBlock).inBlockIndex = v.txNumber - 1
            /\ Last(v.indexAtBlock).blockNr = v.lastModifiedAtBlock
            /\ Len(v.indexAtBlock) >= Len(prev.indexAtBlock)
            /\ \A j \in 1..Len(prev.indexAtBlock) : v.indexAtBlock[j] = prev.indexAtBlock[j]
            /\ prev.introBlock # 0 => v.index = prev.index

\* C13 - Every value handed to Ledger.SetTxSetState that breaks a rule of the
\* writer is answered with an error, not with a panic, and is not staged: the
\* two deltas and the store are as before.  A value with an empty indexAtBlock,
\* or with fewer entries than the previous value, breaks a rule.
C13_RuleViolationRejected ==
    [][\A k \in Keys :
          (/\ last'.op = "SetTxSetState"
           /\ last'.tx.setID = k
           /\ ~WriterRulesHold(Persisted(ledger, k), last'.value))
             => /\ last'.err \notin {"", "panic"}
                /\ pc' = pc
                /\ ledger'.current = ledger.current
                /\ ledger'.committed = ledger.committed
                /\ ledger'.db = ledger.db]_vars

\* This step is a call of Ledger.SetTxSetState that stages its value for k.
WriterStaged(k) ==
    /\ last'.op = "SetTxSetState"
    /\ last'.tx.setID = k
    /\ last'.err = ""
    /\ k \notin DOMAIN ledger.current
    /\ k \in DOMAIN ledger'.current
    /\ ledger'.current[k].value = last'.value

\* C14 - Every value Ledger.SetTxSetState accepts over an existing previous
\* value with the same txNumber has an indexAtBlock identical, entry for
\* entry, to the previous one, whether or not the index changed.
C14_SameTxNumberSameIndexAtBlock ==
    [][\A k \in Keys :
          (/\ WriterStaged(k)
           /\ k \in DOMAIN ledger.db
           /\ last'.value.txNumber = ledger.db[k].txNumber)
             => last'.value.indexAtBlock = ledger.db[k].indexAtBlock]_vars

\* q begins with the entries of p.
StartsWith(q, p) == Len(q) >= Len(p) /\ \A j \in 1..Len(p) : q[j] = p[j]

\* C15 - Extension append-only: when the persisted value a of a set is replaced
\* by a value b with b.txNumber > a.txNumber, the first Len(a.indexAtBlock)
\* entries of b.indexAtBlock are a.indexAtBlock.
C15_ExtensionAppendOnly ==
    [][\A k \in DOMAIN ledger.db :
          (k \in DOMAIN ledger'.db /\ ledger'.db[k].txNumber > ledger.db[k].txNumber)
              => StartsWith(ledger'.db[k].indexAtBlock, ledger.db[k].indexAtBlock)]_vars

\* A value with more transactions and one more indexAtBlock entry than the
\* persisted value has been accepted and waits in the committed delta for the
\* block to be persisted.
C15_Witness ==
    /\ last.op = "TxFinish"
    /\ \E k \in DOMAIN ledger.db \cap DOMAIN ledger.committed :
          LET a == ledger.db[k]
              b == ledger.committed[k].value
          IN /\ b.txNumber > a.txNumber
             /\ b.nonce = a.nonce + 1
             /\ Len(a.indexAtBlock) >= 1
             /\ Len(b.indexAtBlock) = Len(a.indexAtBlock) + 1
             /\ StartsWith(b.indexAtBlock, a.indexAtBlock)

\* C16 - IntroBlock immutability: a set gets its introBlock with its first
\* value, the number of the block being built; every later value of the set,
\* staged, accumulated in the block or persisted, carries the same introBlock.
\* Counting a set without a value as introBlock 0, the introBlock of a set
\* changes at most once, from 0 to its introducing block.
C16_IntroBlockImmutable ==
    [][\A k \in Keys :
          /\ (k \notin DOMAIN ledger.db /\ k \notin DOMAIN ledger.committed
                   /\ k \in DOMAIN ledger'.committed)
                => ledger'.committed[k].value.introBlock = GetBlockchainSize(ledger)
          /\ (k \in DOMAIN ledger.committed /\ k \in DOMAIN ledger'.committed)
                => ledger'.committed[k].value.introBlock
                       = ledger.committed[k].value.introBlock
          /\ (k \in DOMAIN ledger.db /\ k \in DOMAIN ledger'.committed)
                => ledger'.committed[k].value.introBlock = ledger.db[k].introBlock
          /\ (k \notin DOMAIN ledger.db /\ k \in DOMAIN ledger'.db)
                => ledger'.db[k].introBlock = GetBlockchainSize(ledger)
          /\ k \in DOMAIN ledger.db
                => /\ k \in DOMAIN ledger'.db
                   /\ ledger'.db[k].introBlock = ledger.db[k].introBlock]_vars

\* A block has just been committed that holds a later write of a set
\* introduced in block 1: the persisted value still says introBlock 1.
C16_Witness ==
    /\ last.op = "CommitTxBatch"
    /\ last.err = ""
    /\ GetBlockchainSize(ledger) = 3
    /\ \E k \in DOMAIN ledger.db :
          /\ ledger.db[k].introBlock = 1
          /\ ledger.db[k].lastModifiedAtBlock = 2
          /\ ledger.db[k].nonce >= 2

\* C17 - Getter layering: Get(k, committed = false) returns the value staged by
\* the open transaction if there is one, else the value in the block's
\* committed delta if there is one, else the persisted value (nil when there
\* is none); Get(k, committed = true) returns the persisted value whatever is
\* staged or accumulated in memory.  Get changes nothing.
C17_GetterLayering ==
    [][last'.op = "Get" =>
          LET k == last'.tx.setID
              persisted == IF k \in DOMAIN ledger.db THEN Some(ledger.db[k]) ELSE Nil
          IN /\ ledger' = ledger
             /\ last'.value =
                    IF last'.committedOnly THEN persisted
                    ELSE IF k \in DOMAIN ledger.current
                        THEN Some(ledger.current[k].value)
                    ELSE IF k \in DOMAIN ledger.committed
                        THEN Some(ledger.committed[k].value)
                    ELSE persisted]_vars

\* Get(k, false) has just returned the value staged by the open transaction,
\* which is another value than the persisted one.
C17_Witness ==
    /\ last.op = "Get"
    /\ ~last.committedOnly
    /\ txInProgress(ledger)
    /\ last.tx.setID \in DOMAIN ledger.current
    /\ last.tx.setID \in DOMAIN ledger.db
    /\ ledger.current[last.tx.setID].value # ledger.db[last.tx.setID]
    /\ last.value = Some(ledger.current[last.tx.setID].value)

\* This step is a CommitTxBatch call.
CommitStep == pc = "executed" /\ last'.op = "CommitTxBatch"

\* After this step the store holds the block made of the batch's successful
\* transactions together with the batch's chaincode changes, the new values of
\* the committed tx-set delta and the delta itself under the block's number.
BatchInStore ==
    LET n == GetBlockchainSize(ledger)
    IN /\ ledger'.blocks = Append(ledger.blocks, succeededTxs)
       /\ ledger'.ccState = ledger.ccState \o ledger.ccDelta
       /\ n \in DOMAIN ledger'.blockState
       /\ ledger'.blockState[n] = ledger.ccState \o ledger.ccDelta
       /\ \A k \in DOMAIN ledger.committed :
              k \in DOMAIN ledger'.db /\ ledger'.db[k] = ledger.committed[k].value
       /\ \A k \in DOMAIN ledger.db \ DOMAIN ledger.committed :
              k \in DOMAIN ledger'.db /\ ledger'.db[k] = ledger.db[k]
       /\ n \in DOMAIN ledger'.txSetStateDeltaCF
       /\ ledger'.txSetStateDeltaCF[n] = Marshal(ledger.committed)

\* After this step the store is as it was.
StoreUntouched ==
    /\ ledger'.blocks = ledger.blocks
    /\ ledger'.ccState = ledger.ccState
    /\ ledger'.blockState = ledger.blockState
    /\ ledger'.db = ledger.db
    /\ ledger'.txSetStateDeltaCF = ledger.txSetStateDeltaCF

\* C18 - Block commit is atomic: after CommitTxBatch returns, either the new
\* block, the chaincode changes, every new value of the committed tx-set delta
\* and the block's delta are all in the store (it returned no error) or none
\* of them is (it returned an error); in both cases the in-memory deltas are
\* cleared and the batch id is released.
C18_CommitAtomic ==
    [][CommitStep =>
          /\ IF last'.err = "" THEN BatchInStore ELSE StoreUntouched
          /\ ledger'.committed = EmptyDelta
          /\ ledger'.current = EmptyDelta
          /\ ledger'.ccDelta = <<>>
          /\ ledger'.txStateDeltaHash = <<>>
          /\ ledger'.currentID = ""]_vars

\* C19 - CommitTxBatch returns no error iff the batch's transactions and state
\* changes are in permanent storage; a new block is never persisted without
\* the state changes of its batch, so a failure of the tx-set state hash ends
\* in an error and an untouched store.
C19_SuccessIffCommitted ==
    [][CommitStep =>
          /\ last'.err = "" <=> BatchInStore
          /\ ledger'.blocks # ledger.blocks => BatchInStore
          /\ last'.err # "" => StoreUntouched]_vars

\* This step is an Execute call made by ExecuteTransactions (for last'.tx).
ExecuteCall == last'.op = "Execute" /\ i' = i + 1 /\ setIndexes' = setIndexes
\* This step is the ApplyMutations call made by ExecuteTransactions.
ApplyMutationsCall == last'.op = "ApplyMutations" /\ pc = "mutants" /\ pc' # "mutants"
\* Transaction j of the batch has been executed: it succeeded or has an error.
HasBeenExecuted(j) ==
    txerrs[j] # "" \/ \E h \in 1..Len(succeededTxs) : succeededTxs[h] = xacts[j]

\* C20 - In ExecuteTransactions, whatever the positions of the transactions
\* in the batch: a mutant is executed only before ApplyMutations has run,
\* ApplyMutations runs once every mutant of the batch has been executed and
\* no other transaction has, and the other transactions are executed only
\* after ApplyMutations has run.
C20_MutantsThenReplayThenSets ==
    [][/\ (ExecuteCall /\ last'.tx.kind = "mutant") => pc = "mutants"
       /\ (ExecuteCall /\ last'.tx.kind # "mutant")
             => /\ pc = "sets"
                /\ \A j \in 1..Len(xacts) :
                       xacts[j].kind = "mutant" => HasBeenExecuted(j)
       /\ ApplyMutationsCall
             => \A j \in 1..Len(xacts) :
                    IF xacts[j].kind = "mutant" THEN HasBeenExecuted(j)
                    ELSE ~HasBeenExecuted(j)
       /\ (pc = "mutants" /\ pc' = "sets") => ApplyMutationsCall
       /\ (pc = "sets" /\ pc' = "executed")
             => \A j \in 1..Len(xacts) :
                    xacts[j].kind # "mutant" \/ HasBeenExecuted(j)]_vars

\* In a batch whose first transaction is a set and whose second is a mutant,
\* the set has just been executed: the mutant succeeded before it, and
\* ApplyMutations ran a replay in between.
C20_Witness ==
    /\ pc = "sets"
    /\ i = 2
    /\ Len(xacts) = 2
    /\ xacts[1].kind = "set"
    /\ xacts[2].kind = "mutant"
    /\ last.op = "Execute"
    /\ last.tx = xacts[1]
    /\ Len(succeededTxs) >= 1
    /\ succeededTxs[1] = xacts[2]
    /\ applyErr = ""
    /\ GetOlderBlockMod(ledger).isSet

\* The mutant-flagged updates of the block's committed delta.
MutantUpdates(s) == {k \in DOMAIN s.committed : s.committed[k].isMutant}

\* C21 - GetOlderBlockMod returns (k, true) with k the smallest introBlock among
\* the mutant-flagged updates of the block's committed delta, and reports none
\* (false) exactly when the committed delta has no mutant-flagged update; the
\* staged delta and the updates that are not mutants have no say.
C21_OlderBlockMod ==
    last.op = "GetOlderBlockMod" =>
        /\ last.isSet <=> MutantUpdates(ledger) # {}
        /\ last.isSet =>
              /\ \E k \in MutantUpdates(ledger) :
                     last.older = ledger.committed[k].value.introBlock
              /\ \A k \in MutantUpdates(ledger) :
                     last.older <= ledger.committed[k].value.introBlock

\* GetOlderBlockMod has just returned the introBlock of one of two mutant
\* updates, the other one being of a set introduced later.
C21_Witness ==
    /\ last.op = "GetOlderBlockMod"
    /\ last.isSet
    /\ MutantUpdates(ledger) = OlderKeys
    /\ \E k \in OlderKeys : ledger.committed[k].value.introBlock > last.older

\* GetOlderBlockMod has just reported none while the committed delta holds an
\* update that is not a mutant and the staged delta an update that would be.
C21_WitnessNone ==
    /\ last.op = "GetOlderBlockMod"
    /\ ~last.isSet
    /\ ledger.committed # EmptyDelta
    /\ \E k \in DOMAIN ledger.current : ledger.current[k].isMutant

\* The number of candidates of set k among the dispatched candidates out.
DispatchedOf(out, k) == Cardinality({j \in 1..Len(out) : out[j].txid = k})

\* The number of transaction-set transactions of set k located in block b.
SetTxsIn(s, k, b) ==
    Cardinality({j \in 1..Len(s.blocks[b + 1]) :
                    s.blocks[b + 1][j].kind = "set" /\ s.blocks[b + 1][j].txid = k})

\* C22 - A transaction-set transaction located in a block other than the
\* introBlock of its set is never dispatched to the VM.  In normal execution:
\* when the set has a value introduced in an earlier block, Execute hands no
\* candidate to the VM.  During replay: the candidates of set k that
\* ApplyMutations hands to the VM are no more than the set transactions of k
\* located in the introBlock of k.
C22_OnlyIntroBlockDispatched ==
    [][/\ (ExecuteStep /\ NextTx.kind = "set"
              /\ ~IsNil(Get(ledger, NextTx.txid, FALSE))
              /\ Val(Get(ledger, NextTx.txid, FALSE)).introBlock # GetBlockchainSize(ledger))
          => last'.out = <<>>
       /\ (pc = "mutants" /\ last'.op = "ApplyMutations")
          => \A k \in DOMAIN ledger.db :
                 ledger.db[k].introBlock < GetBlockchainSize(ledger)
                     => DispatchedOf(last'.out, k)
                            <= SetTxsIn(ledger, k, ledger.db[k].introBlock)]_vars

\* This step is the ApplyMutations call of ExecuteTransactions, and it returns.
ApplyMutationsReturns ==
    pc = "mutants" /\ last'.op = "ApplyMutations" /\ pc' # "panic"

\* C27 - Whenever ApplyMutations returns, on the normal path and on every
\* error path, the resetting flag is cleared: the block a transaction executed
\* afterwards is applied to is the head of the chain, and a set it introduces
\* is written with that block number.
C27_ResettingCleared ==
    [][/\ ApplyMutationsReturns
          => /\ ~ledger'.isResetting
             /\ GetCurrentBlockEx(ledger') = GetBlockchainSize(ledger')
       /\ (ExecuteStep /\ pc = "sets" /\ last'.err = "" /\ NextTx.kind = "set"
              /\ IsNil(Get(ledger, NextTx.txid, FALSE)) /\ NextTx.n > 1)
          => /\ NextTx.txid \in DOMAIN ledger'.committed
             /\ ledger'.committed[NextTx.txid].value.introBlock
                    = GetBlockchainSize(ledger)]_vars

\* ApplyMutations has just returned an error met after the rollback succeeded
\* (a block to replay is missing or the commit of a replayed block failed), and
\* the chain is not resetting.
C27_Witness ==
    /\ pc = "sets"
    /\ last.op = "ApplyMutations"
    /\ last.err \in {"Unable to retrieve the block",
                      "Failed to commit transaction to the ledger"}
    /\ ~ledger.isResetting

\* ApplyMutations has just returned the error of a failed recovery.
C27_WitnessRecovery ==
    /\ pc = "sets"
    /\ last.op = "ApplyMutations"
    /\ last.err = "Error while recovering the state"
    /\ ~ledger.isResetting

\* C26 - A failure of the replay is fatal: once ApplyMutations has returned an
\* error, no further transaction of the batch is executed.
C26_ReplayFailureFatal ==
    [][applyErr # "" => ~ExecuteStep]_vars

\* The errors ApplyMutations returns after a failed rollback.
RollbackFailed(err) ==
    err \in {"Error while recovering the state",
             "Unable to apply the mutant transactions changes"}

\* C25 - If rolling the chaincode state back fails, ApplyMutations recovers:
\* when it returns, the chaincode state is the state at the end of the head
\* block, block number (chain size - 1).
C25_RecoveryToHead ==
    [][(/\ ApplyMutationsReturns
        /\ RollbackFailed(last'.err)
        /\ GetBlockchainSize(ledger) - 1 \in DOMAIN ledger.blockState)
          => /\ ledger'.ccState = ledger.blockState[GetBlockchainSize(ledger) - 1]
             /\ ledger'.ccDelta = <<>>]_vars

\* C24 as stated - from the start to the end of ApplyMutations the persisted
\* tx-set store and the block's committed tx-set delta are unchanged.
C24_ReplayFrameAsStated ==
    [][ApplyMutationsReturns
          => /\ ledger'.db = ledger.db
             /\ ledger'.committed = ledger.committed]_vars

\* C24 - Replay does not rewrite tx-set state: from the start to the end of
\* ApplyMutations the persisted tx-set store is unchanged, and so is the
\* block's committed tx-set delta unless the commit of a replayed block fails;
\* then the in-memory changes of the batch are dropped and the committed delta
\* is empty.
C24_ReplayFrame ==
    [][ApplyMutationsReturns
          => /\ ledger'.db = ledger.db
             /\ ledger'.txSetStateDeltaCF = ledger.txSetStateDeltaCF
             /\ ledger'.current = ledger.current
             /\ IF last'.err = "Failed to commit transaction to the ledger"
                THEN ledger'.committed = EmptyDelta
                ELSE ledger'.committed = ledger.committed]_vars

\* ApplyMutations has just re-executed a transaction and returned without
\* error: the committed delta holds the mutant's value, the store the value
\* from before the mutation.
C24_Witness ==
    /\ pc = "sets"
    /\ last.op = "ApplyMutations"
    /\ last.err = ""
    /\ last.out # <<>>
    /\ \E k \in MutantUpdates(ledger) :
           /\ k \in DOMAIN ledger.db
           /\ ledger.db[k].index # ledger.committed[k].value.index

\* The ledger as Execute finds it while block b is replayed.
Replaying(s, b) == [s EXCEPT !.isResetting = TRUE, !.sizeReset = b]

\* What the non mutant transactions txs[j..] of block b hand to the VM when
\* each is executed once, in block order, errors or not; the VM fails the
\* calls vmFailsAt.
RECURSIVE ReExecuted(_, _, _, _, _)
ReExecuted(s, b, txs, j, vmFailsAt) ==
    IF j > Len(txs) THEN <<>>
    ELSE (IF txs[j].kind = "mutant" \/ <<b, j>> \in vmFailsAt THEN <<>>
          ELSE Execute(Replaying(s, b), txs[j]).out)
         \o ReExecuted(s, b, txs, j + 1, vmFailsAt)

C23_Witness ==
    /\ pc = "sets"
    /\ last.op = "ApplyMutations"
    /\ last.err = ""
    /\ GetOlderBlockMod(ledger).isSet
    /\ GetOlderBlockMod(ledger).older + 2 <= GetBlockchainSize(ledger)
    /\ LET n == GetBlockchainSize(ledger)
       IN ledger.blockState[n - 1] # ledger.blockState[n - 2]

TxFinishStep == last'.op = "TxFinish" /\ pc = "idle" /\ pc' = "idle"

\* C28 - TxFinish(txid, success): with success = true every staged update is
\* in the block's committed delta afterwards, and what the committed delta
\* held for the other sets stays; with success = false the committed delta is
\* unchanged; in all cases the staged delta is empty and no transaction is in
\* progress afterwards.
C28_TxFinish ==
    [][TxFinishStep
          => /\ ledger'.current = EmptyDelta
             /\ ~txInProgress(ledger')
             /\ ledger'.db = ledger.db
             /\ IF last'.txSuccessful
                THEN /\ DOMAIN ledger'.committed
                           = DOMAIN ledger.committed \cup DOMAIN ledger.current
                     /\ \A k \in DOMAIN ledger.current :
                            ledger'.committed[k] = ledger.current[k]
                     /\ \A k \in DOMAIN ledger.committed \ DOMAIN ledger.current :
                            ledger'.committed[k] = ledger.committed[k]
                ELSE ledger'.committed = ledger.committed]_vars

\* A successful TxFinish that merged staged updates has just returned: the
\* committed delta holds an update of each of the two sets.
C28_Witness ==
    /\ last.op = "TxFinish"
    /\ pc = "idle"
    /\ last.txSuccessful
    /\ DOMAIN ledger.committed = OlderKeys
    /\ ledger.txStateDeltaHash # <<>>
    /\ \E id \in DOMAIN ledger.txStateDeltaHash : ledger.txStateDeltaHash[id]

\* A TxFinish with success = false has just returned: the committed delta
\* holds an update of one set only.
C28_WitnessDiscard ==
    /\ last.op = "TxFinish"
    /\ pc = "idle"
    /\ ~last.txSuccessful
    /\ ledger.committed # EmptyDelta
    /\ DOMAIN ledger.committed # OlderKeys

\* This step is a call of op on the store, made while the store is usable.
StoreStep(op) == last'.op = op /\ pc = "idle"

\* The step leaves the staged and the committed delta as they are.
DeltasUnchanged ==
    /\ ledger'.current = ledger.current
    /\ ledger'.committed = ledger.committed

\* C29 - The tx-set store has at most one transaction in progress: TxBegin
\* while a transaction is in progress panics, TxFinish with a txid other than
\* the one in progress panics, and Set outside a transaction panics; none of
\* these calls changes the staged or the committed delta.  A TxBegin that
\* returns found no transaction in progress.
C29_OneTransaction ==
    [][/\ (StoreStep("TxBegin") /\ txInProgress(ledger))
          => pc' = "panic" /\ DeltasUnchanged
       /\ (StoreStep("TxBegin") /\ ~txInProgress(ledger))
          => pc' = "idle" /\ txInProgress(ledger')
       /\ (StoreStep("TxFinish") /\ last'.txID # ledger.currentTxID)
          => pc' = "panic" /\ DeltasUnchanged
       /\ (StoreStep("Set") /\ ~txInProgress(ledger))
          => pc' = "panic" /\ DeltasUnchanged]_vars

\* TxFinish has just panicked on a txid other than that of the transaction in
\* progress, whose staged update is still there.
C29_Witness ==
    /\ pc = "panic"
    /\ last.op = "TxFinish"
    /\ txInProgress(ledger)
    /\ last.txID # ledger.currentTxID
    /\ ledger.current # EmptyDelta

\* TxBegin has just panicked: a transaction with a staged update is in
\* progress.
C29_WitnessBegin ==
    /\ pc = "panic"
    /\ last.op = "TxBegin"
    /\ txInProgress(ledger)
    /\ ledger.current # EmptyDelta

\* Set has just panicked: no transaction is in progress.
C29_WitnessSet ==
    /\ pc = "panic"
    /\ last.op = "Set"
    /\ ~txInProgress(ledger)
    /\ ledger.committed # EmptyDelta

\* C30 - Right after CommitTxBatch of block n succeeds,
\* FetchStateDeltaFromDB(n) returns a delta equal to the committed tx-set
\* delta of that block (same keys, same previous and new values, same isMutant
\* flags), for every history depth the configuration accepts.
C30_DeltaFetchable ==
    [][CommitStep /\ last'.err = ""
          => FetchStateDeltaFromDB(ledger', GetBlockchainSize(ledger))
                 = Some(ledger.committed)]_vars

\* The same on a ledger that keeps at least one block of history.
C30_DeltaFetchableWithHistory ==
    [][CommitStep /\ last'.err = "" /\ ledger.historyStateDeltaSize >= 1
          => FetchStateDeltaFromDB(ledger', GetBlockchainSize(ledger))
                 = Some(ledger.committed)]_vars

\* A commit of a block whose delta is not empty succeeded on a ledger that
\* keeps some history and is old enough to drop a delta.
C30_WitnessKept ==
    /\ last.op = "CommitTxBatch"
    /\ last.err = ""
    /\ pc = "idle"
    /\ ledger.historyStateDeltaSize = 1
    /\ GetBlockchainSize(ledger) = 2
    /\ FetchStateDeltaFromDB(ledger, 1) # Nil
    /\ FetchStateDeltaFromDB(ledger, 1) # Some(EmptyDelta)
    /\ FetchStateDeltaFromDB(ledger, 0) = Nil

\* The deltas stored are those of the last historyStateDeltaSize blocks.
DeltaWindow ==
    DOMAIN ledger.txSetStateDeltaCF =
        {b \in 0..(GetBlockchainSize(ledger) - 1) :
            GetBlockchainSize(ledger) - 1 - ledger.historyStateDeltaSize < b}

\* This commit of block n stores the block's delta under n (it stays there
\* when some history is kept), deletes nothing but the delta of block
\* n - historyStateDeltaSize, and that only when n >= historyStateDeltaSize.
DeltaWindowSlides ==
    LET n == GetBlockchainSize(ledger)
        h == ledger.historyStateDeltaSize
        deleted == (DOMAIN ledger.txSetStateDeltaCF \cup {n})
                       \ DOMAIN ledger'.txSetStateDeltaCF
    IN /\ h >= 1 => /\ n \in DOMAIN ledger'.txSetStateDeltaCF
                    /\ ledger'.txSetStateDeltaCF[n] = Marshal(ledger.committed)
       /\ DOMAIN ledger'.txSetStateDeltaCF \subseteq DOMAIN ledger.txSetStateDeltaCF \cup {n}
       /\ deleted \subseteq {n - h}
       /\ deleted # {} => n >= h
       /\ \A b \in DOMAIN ledger'.txSetStateDeltaCF \ {n} :
              ledger'.txSetStateDeltaCF[b] = ledger.txSetStateDeltaCF[b]

\* C31 - Sliding window of tx-set deltas: committing block n with history
\* depth h stores the block's delta under key n and deletes only the delta of
\* block n - h (and only when n >= h, never a wrapped-around key); after
\* blocks 0..n are committed the stored deltas are exactly those of blocks b
\* with n - h < b <= n.
C31_SlidingWindow ==
    /\ []DeltaWindow
    /\ [][CommitStep /\ last'.err = "" => DeltaWindowSlides]_vars

\* A commit dropped the delta of block 0 and kept those of blocks 1 and 2.
C31_Witness ==
    /\ last.op = "CommitTxBatch"
    /\ last.err = ""
    /\ pc = "idle"
    /\ ledger.historyStateDeltaSize = 2
    /\ GetBlockchainSize(ledger) = 3
    /\ DOMAIN ledger.txSetStateDeltaCF = {1, 2}
    /\ ledger.txSetStateDeltaCF[2] # Marshal(EmptyDelta)

\* This step is a RollbackTxBatch call.
RollbackStep == last'.op = "RollbackTxBatch" /\ pc \in {"idle", "begun", "executed"}

\* C32 - RollbackTxBatch with the id of the batch in progress discards every
\* tx-set change accumulated during the batch: afterwards the committed delta
\* and the per-transaction hash map are empty, Get(k,false) equals Get(k,true)
\* for every key, the persisted store is unchanged and a new batch can begin;
\* with a non-matching id it returns an error and changes nothing.
C32_Rollback ==
    [][RollbackStep =>
          IF last'.id = ledger.currentID /\ ledger.currentID # ""
          THEN /\ last'.err = ""
               /\ ledger'.committed = EmptyDelta
               /\ ledger'.txStateDeltaHash = <<>>
               /\ \A k \in Keys : Get(ledger', k, FALSE) = Get(ledger', k, TRUE)
               /\ StoreUntouched
               /\ ledger'.currentID = ""
          ELSE last'.id # ledger.currentID
                  => last'.err # "" /\ ledger' = ledger]_vars

\* A batch that had changed a set was rolled back by its id.
C32_Witness ==
    /\ last.op = "RollbackTxBatch"
    /\ last.id = "batch"
    /\ last.err = ""
    /\ last.dirty
    /\ pc = "idle"

\* A rollback with another id was refused while a changed batch was in
\* progress.
C32_WitnessRefused ==
    /\ last.op = "RollbackTxBatch"
    /\ last.id = "other"
    /\ last.err # ""
    /\ last.dirty
    /\ pc = "executed"

\* The 0-based positions of the entries of v that inx does not exceed.
PositionsFor(v, inx) ==
    {p \in 0..(Len(v.indexAtBlock) - 1) : inx <= v.indexAtBlock[p + 1].inBlockIndex}

\* C33 - PositionForIndex(inx) returns the smallest position i such that
\* inx <= indexAtBlock[i].inBlockIndex, and returns an error exactly when no
\* entry satisfies it (inx greater than the last entry's inBlockIndex, or
\* indexAtBlock empty).
C33_PositionForIndex ==
    last.op = "PositionForIndex" =>
        LET ps == PositionsFor(last.value, last.inx)
        IN /\ ~last.result.ok <=> ps = {}
           /\ last.result.ok =>
                  /\ last.result.pos \in ps
                  /\ \A p \in ps : last.result.pos <= p
           /\ ps = {} <=> \/ last.value.indexAtBlock = <<>>
                          \/ last.inx > Last(last.value.indexAtBlock).inBlockIndex

\* The search found an entry that is neither the first nor the last.
C33_Witness ==
    /\ last.op = "PositionForIndex"
    /\ Len(last.value.indexAtBlock) = 3
    /\ last.result.ok
    /\ last.result.pos = 1
    /\ last.inx = last.value.indexAtBlock[2].inBlockIndex

\* The search found nothing in a value that has entries.
C33_WitnessError ==
    /\ last.op = "PositionForIndex"
    /\ Len(last.value.indexAtBlock) = 2
    /\ ~last.result.ok

\* The first logical index the entry at 0-based position p of v contributed.
StartIndex(v, p) ==
    IF p = 0 THEN 0 ELSE v.indexAtBlock[p].inBlockIndex + 1

\* The set k has a stored value whose active index was contributed by a
\* committed block that holds the set transaction.
ActiveInCommittedBlock(s, k) ==
    /\ ~IsNil(Get(s, k, FALSE))
    /\ LET v == Val(Get(s, k, FALSE))
           p == PositionForIndex(v, v.index)
       IN /\ p.ok
          /\ v.indexAtBlock[p.pos + 1].blockNr < GetBlockchainSize(s)
          /\ v.indexAtBlock[p.pos + 1].blockNr \in DOMAIN TxIdxMap(s, k)
          /\ s.blocks[v.indexAtBlock[p.pos + 1].blockNr + 1]
                     [TxIdxMap(s, k)[v.indexAtBlock[p.pos + 1].blockNr]].kind = "set"

\* C34 - For a set whose active index x was contributed by indexAtBlock entry
\* i in an already committed block, GetCurrentDefault selects the candidate at
\* local position x - (indexAtBlock[i-1].inBlockIndex + 1) (x itself when
\* i = 0) of the set transaction stored in block indexAtBlock[i].blockNr; the
\* local position is always within that transaction's candidate list and the
\* subtraction never wraps around.
C34_LocalPosition ==
    (last.op = "GetCurrentDefaultByID" /\ ActiveInCommittedBlock(ledger, last.setID)) =>
        LET v == Val(Get(ledger, last.setID, FALSE))
            p == PositionForIndex(v, v.index)
            defBlock == v.indexAtBlock[p.pos + 1].blockNr
            txSet == ledger.blocks[defBlock + 1][TxIdxMap(ledger, last.setID)[defBlock]]
        IN /\ pc # "panic"
           /\ last.err = ""
           /\ last.out = <<Cand(last.setID, defBlock, v.index - StartIndex(v, p.pos))>>
           /\ v.index - StartIndex(v, p.pos) \in 0..(txSet.n - 1)

C36_ScopesClosed ==
    [][(ExecuteStep /\ pc' # "panic") =>
          /\ ledger'.currentTxID = ""
          /\ ledger'.current = EmptyDelta
          /\ last'.err # "" =>
                 /\ ledger'.txStateDeltaHash = ledger.txStateDeltaHash
                 /\ ledger'.ccDelta = ledger.ccDelta]_vars

\* ExecuteTransactions reported the mutant at position j of the batch as
\* successful.
MutantSucceeded(j) ==
    /\ xacts[j].kind = "mutant"
    /\ txerrs[j] = ""
    /\ \E p \in 1..Len(succeededTxs) : succeededTxs[p] = xacts[j]

\* The active index the committed delta records for the set of xacts[j] is
\* the one xacts[j] asked for.
IndexRecorded(j) ==
    /\ xacts[j].setID \in DOMAIN ledger.committed
    /\ ledger.committed[xacts[j].setID].value.index = xacts[j].index

C38_ReplayFromAtLeastOne ==
    /\ GetOlderBlockMod(ledger).isSet =>
           /\ GetOlderBlockMod(ledger).older >= 1
           /\ USub(GetOlderBlockMod(ledger).older, 1) = GetOlderBlockMod(ledger).older - 1
    /\ \A k \in MutantUpdates(ledger) : ledger.committed[k].value.introBlock # 0

\* The mutants of a batch have been executed: the one of a set introduced in
\* block 0, asking another index of the set than the active one, was refused
\* and GetOlderBlockMod reports no block.
C38_Witness ==
    /\ pc = "mutants"
    /\ i > Len(xacts)
    /\ \E j \in 1..Len(xacts) :
           /\ xacts[j].kind = "mutant"
           /\ xacts[j].setID \in DOMAIN ledger.db
           /\ ledger.db[xacts[j].setID].introBlock = 0
           /\ ledger.db[xacts[j].setID].index # xacts[j].index
           /\ xacts[j].index < ledger.db[xacts[j].setID].txNumber
           /\ txerrs[j] = "Unable to set the new state for the Tx Set"
    /\ ~GetOlderBlockMod(ledger).isSet

\* ---------------------------------------------------------------- C39
\* The entries of indexAtBlock grow in block number and in index.
StrictlyIncreasing(q) ==
    \A p \in 1..(Len(q) - 1) :
        /\ q[p].blockNr < q[p + 1].blockNr
        /\ q[p].inBlockIndex < q[p + 1].inBlockIndex

\* PositionForIndex(x) succeeds and names the one entry whose block
\* contributed the logical index x.
IdentifiesOneBlock(v, x) ==
    LET found == PositionForIndex(v, x)
    IN /\ found.ok
       /\ x <= v.indexAtBlock[found.pos + 1].inBlockIndex
       /\ found.pos > 0 => x > v.indexAtBlock[found.pos].inBlockIndex

\* C39 - In every TxSetStateValue persisted through Execute calls and commits,
\* indexAtBlock is non-empty and strictly increasing in both blockNr and
\* inBlockIndex, and for every logical index x < txNumber PositionForIndex(x)
\* succeeds and identifies exactly one contributing block.
C39_IndexAtBlockWellFormed ==
    \A k \in DOMAIN ledger.db :
        LET v == ledger.db[k]
        IN /\ Len(v.indexAtBlock) > 0
           /\ StrictlyIncreasing(v.indexAtBlock)
           /\ \A x \in 0..(v.txNumber - 1) : IdentifiesOneBlock(v, x)

====
